---- MODULE Spec2Model ----
(***************************************************************************)
(* State-machine model of src/src/components/SkinViewer.jsx: the character *)
(* registry (charactersRef) with its asynchronous roster sync, the frame   *)
(* driver and its throttle, the pointer handlers and the per-frame update  *)
(* of every character.                                                     *)
(*                                                                         *)
(* Units.  Simulated time: 1/120 s (one step is DT = 5).  Wall clock: ms.  *)
(* Horizontal positions: 1/10 world unit.  Height y: 1/2880 world unit and *)
(* vertical speed 1/120 unit/s, so that y += v * deltaTime is y += v.      *)
(* Horizontal speed: 1/100 unit/s.  Angles: degrees.                       *)
(* JS undefined/null of a numeric field is Undef, of an object reference   *)
(* is NoChar, of a vector is a record with set = FALSE.                    *)
(***************************************************************************)
EXTENDS Integers, Sequences, FiniteSets, TLC

VARIABLES
    chars,          \* every characterData object ever created: oid -> record
    registry,       \* charactersRef.current: sequence of oids
    syncs,          \* syncCharacters calls that are awaiting their skin loads
    syncCalls,      \* number of syncCharacters calls made so far
    intervalOn,     \* the 5 s setInterval has been installed
    lastSync,       \* log of the last sync call that finished
    prevRoster,     \* roster seen by the previous syncCharacters call
    loadFailed,     \* some skin load has failed so far
    now,            \* wall clock (Date.now / rAF timestamp), ms
    started,        \* the initial animate() call has run
    lastFrameTime,  \* lastFrameTimeRef.current, in 1/3 ms, or NaN
    timeRef,        \* timeRef.current, in 1/120 s
    lastStepAt,     \* wall-clock time of the last executed simulation step
    stepLog,        \* log of the last executed step
    formationMode,  \* formationModeRef.current
    selectedCluster,\* selectedClusterRef.current: index into clusters, or NoChar
    clusters,       \* clustersRef.current: usernames grouped by clusterId
    draggedChar,    \* draggedCharRef.current
    isDragging,     \* isDraggingRef.current
    dragStartTime,  \* dragStartTimeRef.current, ms
    lastDragPos,    \* lastDragPosRef.current
    lastDragTime,   \* lastDragTimeRef.current, ms
    dragVelocity,   \* dragVelocityRef.current, 1/1000 unit per second
    hoveredChar,    \* hoveredCharRef.current
    lastEvent       \* the handler that ran last

syncVars == <<syncs, syncCalls, intervalOn, lastSync, prevRoster, loadFailed>>
clockVars == <<now, started, lastFrameTime, timeRef, lastStepAt, stepLog>>
formVars == <<formationMode, selectedCluster, clusters>>
dragVars == <<draggedChar, isDragging, dragStartTime, lastDragPos, lastDragTime, dragVelocity,
             hoveredChar>>
vars == <<chars, registry, syncVars, clockVars, formVars, dragVars, lastEvent>>

(***************************************************************************)
(* Bounds of the model.                                                    *)
(***************************************************************************)
MaxSyncCalls == 3
MaxChars == 3
MaxNow == 400
MaxUINow == 84
MaxWalkNow == 4200
MaxSeekNow == 25200
MaxSeekSyncs == 6

(***************************************************************************)
(* Program constants.                                                      *)
(***************************************************************************)
targetFPS == 24
DT == 5
\* frameInterval = 1000 / targetFPS ms, in 1/3 ms
frameInterval == 3000 \div targetFPS

NaN == -1
Undef == -1000000
\* Infinity; stays Infinity under subtraction
Inf == 2000000000
\* stand-in for Date.now() taken as a number of seconds: on the order of
\* 1.7e12, it does not come near 0 within any run
DateNowAsSeconds == 1500000000
\* the outcome of a division by a distance of 0 (0 / 0 is NaN, d / 0 is
\* Infinity): a value far outside every length of the scene, which stays
\* outside under the sums and scalings of one frame
NotFinite == -50000000

\* scales
Sec == 120
Unit == 1000
YUnit == 2880
NoChar == 0
NoName == ""

Usernames == {"a", "b"}
ClusterIds == {"c1", "c2"}

(***************************************************************************)
(* Arithmetic helpers.                                                     *)
(***************************************************************************)
Abs(n) == IF n < 0 THEN -n ELSE n
Min(a, b) == IF a < b THEN a ELSE b
Max(a, b) == IF a > b THEN a ELSE b
Sign(n) == IF n > 0 THEN 1 ELSE IF n < 0 THEN -1 ELSE 0

\* a / b rounded towards zero, as the integer part of the JS quotient
Quot(a, b) == IF (a >= 0) = (b > 0) THEN Abs(a) \div Abs(b) ELSE -(Abs(a) \div Abs(b))

\* a / b where b is a distance
Over(a, b) == IF b = 0 THEN NotFinite ELSE Quot(a, b)

\* a * num / den, rounded to nearest
Scale(a, num, den) ==
    IF Abs(a) > 1000000 THEN Sign(a) * ((Abs(a) \div den) * num)
    ELSE Sign(a) * ((Abs(a) * num + den \div 2) \div den)

RECURSIVE SqrtIter(_, _, _)
SqrtIter(n, lo, hi) ==
    IF lo >= hi THEN lo
    ELSE LET mid == (lo + hi + 1) \div 2
         IN  IF mid * mid <= n THEN SqrtIter(n, mid, hi) ELSE SqrtIter(n, lo, mid - 1)

ISqrt(n) == SqrtIter(n, 0, 46340)

\* Math.sqrt(dx * dx + dz * dz) for lengths in 1/1000 unit: exact to 1/1000
\* up to 30 units, to 1/10 up to 3000, to 100 beyond
Hypot(dx, dz) ==
    IF Abs(dx) <= 30000 /\ Abs(dz) <= 30000
    THEN ISqrt(dx * dx + dz * dz)
    ELSE IF Abs(dx) <= 3000000 /\ Abs(dz) <= 3000000
    THEN 100 * ISqrt((dx \div 100) * (dx \div 100) + (dz \div 100) * (dz \div 100))
    ELSE 100000 * ISqrt((dx \div 100000) * (dx \div 100000)
                          + (dz \div 100000) * (dz \div 100000))

\* Math.atan(k / 16) in degrees, k = 0..16
AtanTable == <<0, 4, 7, 11, 14, 17, 21, 24, 27, 29, 32, 35, 37, 39, 41, 43, 45>>

Atan01(num, den) == AtanTable[((Min(num, 2000000) * 16 + den \div 2) \div den) + 1]

\* Math.atan2(y, x) in degrees
Atan2(y, x) ==
    IF x = 0 /\ y = 0 THEN 0
    ELSE LET ay == Abs(y)
             ax == Abs(x)
             a == IF ay <= ax THEN Atan01(ay, ax) ELSE 90 - Atan01(ax, ay)
         IN  IF x >= 0 THEN (IF y >= 0 THEN a ELSE -a)
             ELSE (IF y >= 0 THEN 180 - a ELSE a - 180)

\* Math.sin and Math.cos of an angle in degrees, in 1/1000
SinTable ==
    <<0, 17, 35, 52, 70, 87, 105, 122, 139, 156, 174, 191, 208,
      225, 242, 259, 276, 292, 309, 326, 342, 358, 375, 391, 407, 423,
      438, 454, 469, 485, 500, 515, 530, 545, 559, 574, 588, 602, 616,
      629, 643, 656, 669, 682, 695, 707, 719, 731, 743, 755, 766, 777,
      788, 799, 809, 819, 829, 839, 848, 857, 866, 875, 883, 891, 899,
      906, 914, 921, 927, 934, 940, 946, 951, 956, 961, 966, 970, 974,
      978, 982, 985, 988, 990, 993, 995, 996, 998, 999, 999, 1000, 1000>>

Sin(a) ==
    LET m == a % 360
    IN  IF m <= 90 THEN SinTable[m + 1]
        ELSE IF m <= 180 THEN SinTable[180 - m + 1]
        ELSE IF m <= 270 THEN -SinTable[m - 180 + 1]
        ELSE -SinTable[360 - m + 1]

Cos(a) == Sin(a + 90)

\* the while loops that bring an angle into [-PI, PI]
NormAngle(a) ==
    LET m == ((a + 180) % 360) - 180
    IN  IF m = -180 /\ a > 0 THEN 180 ELSE m

\* diff = target - current brought into [-PI, PI]; rotation.y += diff * speed
RotateTowards(current, target, speedPct) ==
    LET d0 == NormAngle(target) - NormAngle(current)
        diff == IF d0 > 180 THEN d0 - 360 ELSE IF d0 < -180 THEN d0 + 360 ELSE d0
    IN  NormAngle(current + Scale(diff, speedPct, 100))

Range(s) == {s[i] : i \in 1..Len(s)}

SelectSeq2(s, Test(_)) ==
    LET F[i \in 0..Len(s)] ==
            IF i = 0 THEN << >>
            ELSE IF Test(s[i]) THEN Append(F[i - 1], s[i]) ELSE F[i - 1]
    IN  F[Len(s)]

(***************************************************************************)
(* fetchOnlinePlayers: flattens the servers of the API response into       *)
(* {username, clusterId} entries, skipping players without a name; any     *)
(* fetch error yields the empty list.                                      *)
(***************************************************************************)
Server(cid, names) == [clusterId |-> cid, onlinePlayerList |-> names]

ApiResponses ==
    { << >>,
      <<Server("c1", <<"a">>)>>,
      <<Server("c2", <<"a">>)>>,
      <<Server("c1", <<"a", "b">>)>>,
      <<Server("c2", <<"b">>)>>,
      <<Server(NoName, <<NoName, "b">>)>>,
      <<Server("c1", <<NoName, "a">>), Server("c2", <<"b", NoName>>)>>,
      <<Server("c1", <<"a">>), Server("c2", <<"a">>)>> }

\* a flattening that gives up on a server at its first nameless player
ServerPlayersUntilNameless(server) ==
    LET cid == IF server.clusterId = NoName THEN "UNKNOWN" ELSE server.clusterId
        l == server.onlinePlayerList
        F[i \in 0..Len(l)] ==
            IF i = 0 THEN << >>
            ELSE IF \A j \in 1..i : l[j] # NoName
                 THEN Append(F[i - 1], [username |-> l[i], clusterId |-> cid])
                 ELSE F[i - 1]
    IN  F[Len(l)]

ServerPlayers(server) ==
    LET cid == IF server.clusterId = NoName THEN "UNKNOWN" ELSE server.clusterId
        l == server.onlinePlayerList
        F[i \in 0..Len(l)] ==
            IF i = 0 THEN << >>
            ELSE IF l[i] # NoName
                 THEN Append(F[i - 1], [username |-> l[i], clusterId |-> cid])
                 ELSE F[i - 1]
    IN  F[Len(l)]

\* a fetch whose error is not caught: the entries of whatever was received
fetchOnlinePlayersUncaught(ok, data) ==
    LET F[i \in 0..Len(data)] ==
            IF i = 0 THEN << >> ELSE F[i - 1] \o ServerPlayers(data[i])
    IN  F[Len(data)]

fetchOnlinePlayers(ok, data) ==
    IF ~ok THEN << >>
    ELSE LET F[i \in 0..Len(data)] ==
                 IF i = 0 THEN << >> ELSE F[i - 1] \o ServerPlayers(data[i])
         IN  F[Len(data)]

(***************************************************************************)
(* characterData as addCharacter creates it.                               *)
(***************************************************************************)
NoVec == [set |-> FALSE, x |-> 0, y |-> 0, z |-> 0]
Vec(x, y, z) == [set |-> TRUE, x |-> x, y |-> y, z |-> z]

\* the random draws of one addCharacter / respawn
Spawns ==
    { [x |-> 100 * Unit, z |-> 0, rot |-> 0, targetX |-> -60 * Unit, targetZ |-> 80 * Unit,
       changeTargetTime |-> 2 * Sec, waveDuration |-> 4 * Sec],
      [x |-> 64 * Unit, z |-> 48 * Unit, rot |-> 90, targetX |-> 150 * Unit, targetZ |-> 0,
       changeTargetTime |-> 5 * Sec, waveDuration |-> 6 * Sec] }

characterData(username, clusterId, sp) ==
    [ username |-> username,
      clusterId |-> IF clusterId = NoName THEN "UNKNOWN" ELSE clusterId,
      animProgress |-> 0,
      animationState |-> "wave",
      \* path
      x |-> sp.x,
      z |-> sp.z,
      targetX |-> sp.targetX,
      targetZ |-> sp.targetZ,
      changeTargetTime |-> sp.changeTargetTime,
      \* group.position, group.rotation.y
      gx |-> sp.x,
      gy |-> 0,
      gz |-> sp.z,
      rotY |-> sp.rot,
      waveDuration |-> sp.waveDuration,
      stuckTimer |-> 0,
      pathBlockedCheckTimer |-> 0,
      \* fields that addCharacter leaves undefined
      idleDuration |-> Undef,
      lastDistanceToTarget |-> Undef,
      waypoint |-> NoVec,
      isDying |-> FALSE,
      deathTimer |-> Undef,
      isThrown |-> FALSE,
      isFloating |-> FALSE,
      floatHeight |-> Undef,
      throwVelocity |-> NoVec,
      dropVelocity |-> Undef,
      isHit |-> FALSE,
      hitTimer |-> Undef,
      isBeingHit |-> FALSE,
      wasHitByPlayer |-> FALSE,
      knockbackVelocity |-> NoVec,
      knockbackStartTime |-> Undef,
      knockbackMinDuration |-> Undef,
      \* history: the simulation time (timeRef) of the hit that knocked it back
      knockedAt |-> Undef,
      hitTargetPlayer |-> NoChar,
      isHitting |-> FALSE,
      hitAnimationTimer |-> Undef,
      hitDecisionTimer |-> Undef,
      runAwayTimer |-> Undef,
      runAwayTarget |-> NoVec,
      runAwayFrom |-> NoChar,
      shouldRunAway |-> FALSE,
      formationMode |-> FALSE,
      shouldDespawn |-> FALSE,
      fadeOutOpacity |-> Undef,
      isFadedOut |-> FALSE,
      reachedFormationPosition |-> FALSE,
      wasJustDragged |-> FALSE,
      isHovered |-> FALSE ]

Usernames_(reg, h) == [i \in 1..Len(reg) |-> h[reg[i]].username]

HasUser(reg, h, u) == \E i \in 1..Len(reg) : h[reg[i]].username = u

(***************************************************************************)
(* removeCharacter: splices the first entry with that username out of the  *)
(* registry; the object itself stays reachable from whoever references it. *)
(***************************************************************************)
removeCharacter(reg, h, username) ==
    IF ~HasUser(reg, h, username) THEN reg
    ELSE LET index == CHOOSE i \in 1..Len(reg) :
                          /\ h[reg[i]].username = username
                          /\ \A j \in 1..(i - 1) : h[reg[j]].username # username
         IN  SubSeq(reg, 1, index - 1) \o SubSeq(reg, index + 1, Len(reg))

RemoveAll(reg, h, names) ==
    LET F[i \in 0..Len(names)] ==
            IF i = 0 THEN reg ELSE removeCharacter(F[i - 1], h, names[i])
    IN  F[Len(names)]

(***************************************************************************)
(* syncCharacters, first part (from the resolved fetch to the await of the *)
(* skin loads): the diff, the removals, and one addCharacter call per      *)
(* entry of toAdd.  addCharacter tests for an existing username when it is *)
(* called and starts the skin load; the push happens when the load ends.   *)
(***************************************************************************)
SyncFetched(ok, data, maxCalls) ==
    /\ syncCalls < maxCalls
    /\ (syncCalls = 0 \/ intervalOn)
    /\ LET onlinePlayers == fetchOnlinePlayers(ok, data)
           currentUsernames == Usernames_(registry, chars)
           onlineUsernames == [i \in 1..Len(onlinePlayers) |-> onlinePlayers[i].username]
           toAdd == SelectSeq2(onlinePlayers,
                               LAMBDA p : p.username \notin Range(currentUsernames))
           toRemove == SelectSeq2(currentUsernames,
                                  LAMBDA u : u \notin Range(onlineUsernames))
           reg1 == RemoveAll(registry, chars, toRemove)
           \* addCharacter's guard, evaluated at call time
           loads == SelectSeq2(toAdd, LAMBDA p : ~HasUser(reg1, chars, p.username))
       IN  /\ registry' = reg1
           /\ syncs' = Append(syncs,
                  [ call |-> syncCalls + 1,
                    ok |-> ok,
                    data |-> IF ok THEN data ELSE << >>,
                    onlinePlayers |-> onlinePlayers,
                    before |-> Range(currentUsernames),
                    beforeReg |-> Range(registry),
                    beforeChars |-> chars,
                    clean |-> ~loadFailed,
                    same |-> (syncCalls > 0 /\ prevRoster = onlinePlayers),
                    toAdd |-> toAdd,
                    removed |-> Range(toRemove),
                    pending |-> loads,
                    added |-> << >> ])
           /\ prevRoster' = onlinePlayers
    /\ syncCalls' = syncCalls + 1
    /\ lastEvent' = "syncCharacters"
    /\ UNCHANGED <<chars, intervalOn, lastSync, loadFailed, clockVars, formVars, dragVars>>

(***************************************************************************)
(* A skin load of sync s ends well: the texture callback builds the        *)
(* character and pushes it, without looking at the registry again.         *)
(***************************************************************************)
LoadDone(s, k, sp) ==
    /\ s \in 1..Len(syncs)
    /\ k \in 1..Len(syncs[s].pending)
    /\ Cardinality(DOMAIN chars) < MaxChars
    /\ LET p == syncs[s].pending[k]
           oid == Cardinality(DOMAIN chars) + 1
           rest == SubSeq(syncs[s].pending, 1, k - 1)
                      \o SubSeq(syncs[s].pending, k + 1, Len(syncs[s].pending))
       IN  /\ chars' = [o \in DOMAIN chars \cup {oid} |->
                           IF o = oid THEN characterData(p.username, p.clusterId, sp)
                           ELSE chars[o]]
           /\ registry' = Append(registry, oid)
           /\ syncs' = [syncs EXCEPT ![s].pending = rest,
                                     ![s].added = Append(@, p.username)]
    /\ lastEvent' = "addCharacter"
    /\ UNCHANGED <<syncCalls, intervalOn, lastSync, prevRoster, loadFailed, clockVars,
                   formVars, dragVars>>

(***************************************************************************)
(* A skin load fails (fetch not ok, texture error): addCharacter's catch   *)
(* logs the error and the promise resolves; nothing is pushed.             *)
(***************************************************************************)
LoadFail(s, k) ==
    /\ s \in 1..Len(syncs)
    /\ k \in 1..Len(syncs[s].pending)
    /\ LET rest == SubSeq(syncs[s].pending, 1, k - 1)
                      \o SubSeq(syncs[s].pending, k + 1, Len(syncs[s].pending))
       IN  syncs' = [syncs EXCEPT ![s].pending = rest, ![s].clean = FALSE]
    /\ loadFailed' = TRUE
    /\ lastEvent' = "addCharacter"
    /\ UNCHANGED <<chars, registry, syncCalls, intervalOn, lastSync, prevRoster, clockVars,
                   formVars, dragVars>>

(***************************************************************************)
(* syncCharacters, second part (after Promise.all): clusterId of the first *)
(* registry entry of every roster username is overwritten; the first sync  *)
(* installs the 5 s interval when it is done.                              *)
(***************************************************************************)
\* detectClusters: the usernames of the registry grouped by clusterId, in
\* the order in which the clusterIds first occur
detectClusters(reg, h) ==
    LET ids == SelectSeq2([i \in 1..Len(reg) |-> i],
                          LAMBDA i : /\ h[reg[i]].clusterId # NoName
                                     /\ \A j \in 1..(i - 1) :
                                            h[reg[j]].clusterId # h[reg[i]].clusterId)
        Names(cid) ==
            SelectSeq2([i \in 1..Len(reg) |-> i],
                       LAMBDA i : /\ h[reg[i]].clusterId = cid
                                  /\ \A j \in 1..(i - 1) :
                                         ~(h[reg[j]].clusterId = cid
                                           /\ h[reg[j]].username = h[reg[i]].username))
    IN  [k \in 1..Len(ids) |->
            [n \in 1..Len(Names(h[reg[ids[k]]].clusterId)) |->
                h[reg[Names(h[reg[ids[k]]].clusterId)[n]]].username]]

FirstOf(reg, h, u) ==
    CHOOSE i \in 1..Len(reg) :
        /\ h[reg[i]].username = u
        /\ \A j \in 1..(i - 1) : h[reg[j]].username # u

UpdateClusterIds(reg, h, onlinePlayers) ==
    LET F[i \in 0..Len(onlinePlayers)] ==
            IF i = 0 THEN h
            ELSE LET p == onlinePlayers[i]
                 IN  IF HasUser(reg, F[i - 1], p.username)
                     THEN [F[i - 1] EXCEPT
                              ![reg[FirstOf(reg, F[i - 1], p.username)]].clusterId = p.clusterId]
                     ELSE F[i - 1]
    IN  F[Len(onlinePlayers)]

SyncFinish(s) ==
    /\ s \in 1..Len(syncs)
    /\ syncs[s].pending = << >>
    /\ chars' = UpdateClusterIds(registry, chars, syncs[s].onlinePlayers)
    /\ lastSync' = syncs[s]
    /\ syncs' = SubSeq(syncs, 1, s - 1) \o SubSeq(syncs, s + 1, Len(syncs))
    /\ intervalOn' = (intervalOn \/ syncs[s].call = 1)
    /\ clusters' = detectClusters(registry, chars')
    /\ lastEvent' = "syncCharacters"
    /\ UNCHANGED <<registry, syncCalls, prevRoster, loadFailed, clockVars,
                   formationMode, selectedCluster, dragVars>>

NoSync == [call |-> 0, ok |-> TRUE, data |-> << >>, onlinePlayers |-> << >>,
           before |-> {}, beforeReg |-> {}, beforeChars |-> << >>, clean |-> TRUE, same |-> FALSE, toAdd |-> << >>, removed |-> {},
           pending |-> << >>, added |-> << >>]

InitSync ==
    /\ syncs = << >>
    /\ syncCalls = 0
    /\ intervalOn = FALSE
    /\ lastSync = NoSync
    /\ prevRoster = << >>
    /\ loadFailed = FALSE

NoStep == [ran |-> FALSE, sincePrev |-> NaN, advanced |-> 0, threw |-> FALSE, updated |-> {}]

InitClock ==
    /\ now = 0
    /\ started = FALSE
    /\ lastFrameTime = 0
    /\ timeRef = 0
    /\ lastStepAt = NaN
    /\ stepLog = NoStep

InitUI ==
    /\ formationMode = FALSE
    /\ selectedCluster = NoChar
    /\ clusters = << >>
    /\ draggedChar = NoChar
    /\ hoveredChar = NoChar
    /\ isDragging = FALSE
    /\ dragStartTime = 0
    /\ lastDragPos = [x |-> 0, z |-> 0]
    /\ lastDragTime = 0
    /\ dragVelocity = [x |-> 0, z |-> 0]
    /\ lastEvent = "mount"

Init ==
    /\ chars = << >>
    /\ registry = << >>
    /\ InitSync
    /\ InitClock
    /\ InitUI

(***************************************************************************)
(* Movement helpers of the per-frame update.  Speeds are in 1/1000 unit    *)
(* per second; one step lasts deltaTime = 1/24 s.                          *)
(***************************************************************************)
baseMoveSpeed == 2 * Unit

PerTick(v) == Scale(v, 1, 24)

\* (d / distance) * speed * deltaTime
Along(d, distance, speed) ==
    LET k == IF Abs(d) > 200000 THEN 100 ELSE 1
    IN  IF distance = 0 THEN NotFinite
        ELSE Scale(Quot(d, k) * PerTick(speed), 1, Max(Quot(distance, k), 1))

\* timers: t - deltaTime, with Infinity absorbing
Less(t, dt) == IF t >= Inf THEN Inf ELSE t - dt

CeilSqrt(n) == CHOOSE r \in 0..n : r * r >= n /\ \A q \in 0..(r - 1) : q * q < n
\* the quotient rounded down
FloorDiv(a, b) == a \div b
CeilDiv(a, b) == (a + b - 1) \div b

\* positions in the sequence reg of the characters that satisfy Test
Filter(reg, h, Test(_)) == SelectSeq2(reg, LAMBDA o : Test(h[o]))

IndexOf(seq, e) == CHOOSE i \in 1..Len(seq) : seq[i] = e /\ \A j \in 1..(i - 1) : seq[j] # e

(***************************************************************************)
(* Formation set-up at the start of a step, while formation mode is on and *)
(* the selected cluster exists: members get their grid slot as target,     *)
(* everybody else is sent off screen to the right.                         *)
(***************************************************************************)
FormationActive(env) ==
    /\ env.formationMode
    /\ env.selectedCluster # NoChar
    /\ Len(env.clusters) >= env.selectedCluster

InCluster(env, c) == c.username \in Range(env.clusters[env.selectedCluster])

formationSpacing == 40 * Unit
offscreenDistance == 600 * Unit

FormationSetup(h, reg, env) ==
    IF ~FormationActive(env) THEN h
    ELSE LET clusterCharacters == Filter(reg, h, LAMBDA c : InCluster(env, c))
             nonClusterCharacters == Filter(reg, h, LAMBDA c : ~InCluster(env, c))
             n == Len(clusterCharacters)
             formationRows == CeilSqrt(n)
             formationCols == IF n = 0 THEN 0 ELSE CeilDiv(n, formationRows)
             Member(c, idx) ==
                 LET row == idx \div formationCols
                     col == idx % formationCols
                 IN  [c EXCEPT !.targetX = (2 * col - (formationCols - 1)) * (formationSpacing \div 2),
                               !.targetZ = (2 * row - (formationRows - 1)) * (formationSpacing \div 2),
                               !.changeTargetTime = 999999 * Sec,
                               !.formationMode = TRUE,
                               !.hitTargetPlayer = NoChar,
                               !.isHitting = FALSE,
                               !.runAwayTimer = Undef,
                               !.runAwayTarget = NoVec,
                               !.runAwayFrom = NoChar,
                               !.shouldRunAway = FALSE,
                               !.animationState = "walk"]
             Other(c, idx) ==
                 [c EXCEPT !.targetX = offscreenDistance,
                           !.targetZ = ((idx % 10) * 8 - 36) * Unit,
                           !.changeTargetTime = 999999 * Sec,
                           !.formationMode = TRUE,
                           !.shouldDespawn = TRUE,
                           !.animationState = "run",
                           !.fadeOutOpacity = 1000,
                           !.isFadedOut = FALSE]
         IN  [o \in DOMAIN h |->
                 IF o \in Range(clusterCharacters)
                 THEN Member(h[o], IndexOf(clusterCharacters, o) - 1)
                 ELSE IF o \in Range(nonClusterCharacters)
                 THEN Other(h[o], IndexOf(nonClusterCharacters, o) - 1)
                 ELSE h[o]]

(***************************************************************************)
(* Death sequence: the character is held where it is; when deathTimer runs *)
(* out it respawns at a random place.                                      *)
(***************************************************************************)
\* a respawn that leaves the thrown flag set
RespawnStillThrown(c, sp) ==
    [c EXCEPT !.x = sp.x, !.z = sp.z,
              !.gx = sp.x, !.gy = 0, !.gz = sp.z,
              !.rotY = sp.rot,
              !.isFloating = FALSE,
              !.isDying = FALSE,
              !.dropVelocity = Undef,
              !.isHit = FALSE,
              !.hitTimer = Undef,
              !.animationState = "wave",
              !.waveDuration = 2 * Sec + (sp.waveDuration - 4 * Sec) \div 2,
              !.animProgress = 0,
              !.changeTargetTime = DateNowAsSeconds]

Respawn(c, sp) ==
    [c EXCEPT !.x = sp.x, !.z = sp.z,
              !.gx = sp.x, !.gy = 0, !.gz = sp.z,
              !.rotY = sp.rot,
              !.isThrown = FALSE,
              !.isFloating = FALSE,
              !.isDying = FALSE,
              !.throwVelocity = NoVec,
              !.dropVelocity = Undef,
              !.isHit = FALSE,
              !.hitTimer = Undef,
              !.animationState = "wave",
              !.waveDuration = 2 * Sec + (sp.waveDuration - 4 * Sec) \div 2,
              !.animProgress = 0,
              !.changeTargetTime = DateNowAsSeconds]

Dying(c, sp) ==
    LET c1 == [c EXCEPT !.deathTimer = @ - DT,
                        !.throwVelocity = IF @.set THEN [@ EXCEPT !.x = 0, !.z = 0] ELSE @,
                        !.dropVelocity = IF @ # Undef THEN 0 ELSE @,
                        !.targetX = c.x,
                        !.targetZ = c.z,
                        !.changeTargetTime = Inf,
                        !.gx = c.x,
                        !.gz = c.z,
                        !.shouldRunAway = FALSE,
                        !.runAwayTimer = Undef,
                        !.runAwayTarget = NoVec,
                        !.runAwayFrom = NoChar,
                        !.hitTargetPlayer = NoChar,
                        !.isHitting = FALSE]
    IN  IF c1.deathTimer <= 0 THEN Respawn(c1, sp) ELSE c1

(***************************************************************************)
(* A character in formation mode: a member of the selected cluster walks   *)
(* to its slot and idles there; everybody else runs off to the right and   *)
(* fades out.  animSpeed is 0.87285: animProgress is kept in 1/1000 and    *)
(* grows by 36 per step.                                                   *)
(***************************************************************************)
animStep == 36

FormationMember(c) ==
    LET dx == c.targetX - c.x
        dz == c.targetZ - c.z
        distance == Hypot(dx, dz)
    IN  IF distance > 300
        THEN LET nx == c.x + Along(dx, distance, 5 * baseMoveSpeed)
                 nz == c.z + Along(dz, distance, 5 * baseMoveSpeed)
                 c1 == [c EXCEPT !.x = nx, !.z = nz, !.gx = nx, !.gz = nz,
                                 !.rotY = RotateTowards(@, Atan2(dx, dz), 50)]
             IN  IF c1.animationState # "wave"
                 THEN [c1 EXCEPT !.animationState = "walk", !.animProgress = @ + animStep]
                 ELSE c1
        ELSE LET c1 == IF c.animationState = "walk"
                       THEN [c EXCEPT !.reachedFormationPosition = TRUE,
                                      !.animationState = "idle",
                                      !.animProgress = 0]
                       ELSE c
             IN  [c1 EXCEPT !.rotY = RotateTowards(@, 45, 50),
                            !.animProgress = @ + animStep]

OffscreenAvoid(h, reg, o) ==
    LET c == h[o]
        F[i \in 0..Len(reg)] ==
            IF i = 0 THEN <<0, 0>>
            ELSE LET other == h[reg[i]]
                     distX == c.x - other.x
                     distZ == c.z - other.z
                     dist == Hypot(distX, distZ)
                 IN  IF reg[i] = o \/ ~other.shouldDespawn \/ ~(dist < 15000 /\ dist > 0)
                     THEN F[i - 1]
                     ELSE <<F[i - 1][1] + Over(distX * (15000 - dist) * 4, dist * 3),
                            F[i - 1][2] + Over(distZ * (15000 - dist) * 4, dist * 3)>>
    IN  F[Len(reg)]

FormationLeaver(h, reg, o) ==
    LET c == h[o]
        dx == c.targetX - c.x
        dz == 0 - c.z
        c0 == IF c.fadeOutOpacity = Undef
              THEN [c EXCEPT !.fadeOutOpacity = 1000, !.isFadedOut = FALSE] ELSE c
        c1 == IF Abs(dz) > 500
              THEN [c0 EXCEPT !.z = @ + (IF dz > 0 THEN 1 ELSE -1) * PerTick(10 * baseMoveSpeed),
                              !.gz = c0.z + (IF dz > 0 THEN 1 ELSE -1) * PerTick(10 * baseMoveSpeed)]
              ELSE [c0 EXCEPT !.z = 0, !.gz = 0]
    IN  IF Abs(dx) > 100 \/ Abs(dz) > 100
        THEN LET avoid == OffscreenAvoid([h EXCEPT ![o] = c1], reg, o)
                 c2 == IF Abs(avoid[1]) > 10 \/ Abs(avoid[2]) > 10
                       THEN [c1 EXCEPT !.x = @ + PerTick(avoid[1]), !.z = @ + PerTick(avoid[2])]
                       ELSE c1
                 nx == c2.x + (IF dx > 0 THEN 1 ELSE -1) * PerTick(25 * baseMoveSpeed)
                 nz == c2.z + (IF dz > 0 THEN 1 ELSE -1) * PerTick(25 * baseMoveSpeed)
             IN  [c2 EXCEPT !.x = nx, !.z = nz, !.gx = nx, !.gz = nz,
                            !.rotY = RotateTowards(@, 90, 60),
                            !.animationState = "run",
                            !.animProgress = @ + animStep]
        ELSE [c1 EXCEPT !.isFadedOut = TRUE,
                        !.fadeOutOpacity = IF @ > 0 THEN Max(0, @ - 2 * (1000 \div 24)) ELSE @]

FormationMove(h, reg, o, env) ==
    IF FormationActive(env) /\ InCluster(env, h[o])
    THEN [h EXCEPT ![o] = FormationMember(h[o])]
    ELSE [h EXCEPT ![o] = FormationLeaver(h, reg, o)]

\* no fade-in: the opacity is left as it is
StayFaded(c) == c

\* fade-in after formation mode was cancelled
FadeIn(c) ==
    IF c.fadeOutOpacity # Undef /\ c.fadeOutOpacity < 1000 /\ ~c.isFadedOut /\ ~c.formationMode
    THEN [c EXCEPT !.fadeOutOpacity = Min(1000, @ + 2 * (1000 \div 24))]
    ELSE c

(***************************************************************************)
(* A thrown character: dies beyond the screen edge, kills whoever it flies *)
(* over, moves ballistically and lands when its height reaches 0.          *)
(***************************************************************************)
screenEdgeDistance == 500 * Unit
horizontalCollisionRadius == 8 * Unit
maxHeight == 8 * YUnit

StartDying(c) ==
    [c EXCEPT !.isDying = TRUE, !.deathTimer = (12 * Sec) \div 10,
              !.isHit = TRUE, !.hitTimer = (12 * Sec) \div 10]

KilledInFlight(c) ==
    [StartDying(c) EXCEPT !.targetX = c.x, !.targetZ = c.z,
                          !.changeTargetTime = Inf,
                          !.animationState = "idle",
                          !.gx = c.x, !.gz = c.z,
                          !.shouldRunAway = FALSE,
                          !.runAwayTimer = Undef,
                          !.runAwayTarget = NoVec,
                          !.runAwayFrom = NoChar,
                          !.hitTargetPlayer = NoChar,
                          !.isHitting = FALSE]

FlightCollisions(h, reg, o) ==
    [p \in DOMAIN h |->
        IF /\ p \in Range(reg)
           /\ p # o
           /\ ~h[p].isDying
           /\ ~h[p].isThrown
           /\ ~h[p].formationMode
           /\ Hypot(h[o].x - h[p].x, h[o].z - h[p].z) < horizontalCollisionRadius
        THEN KilledInFlight(h[p])
        ELSE h[p]]

Fly(c) ==
    LET nx == c.x + PerTick(c.throwVelocity.x)
        nz == c.z + PerTick(c.throwVelocity.z)
        y1 == c.gy + c.dropVelocity
        clamp == y1 > maxHeight
        drop == (IF clamp THEN 0 ELSE c.dropVelocity) - 49
        vx0 == Scale(c.throwVelocity.x, 11, 12)
        vz0 == Scale(c.throwVelocity.z, 11, 12)
        vx == IF Abs(vx0) < 100 THEN 0 ELSE vx0
        vz == IF Abs(vz0) < 100 THEN 0 ELSE vz0
    IN  [c EXCEPT !.x = nx, !.z = nz, !.gx = nx, !.gz = nz,
                  !.gy = IF clamp THEN maxHeight ELSE y1,
                  !.dropVelocity = drop,
                  !.throwVelocity = [@ EXCEPT !.x = vx, !.z = vz],
                  !.rotY = IF Hypot(vx, vz) > 100
                           THEN RotateTowards(@, Atan2(vx, vz), 30) ELSE @,
                  !.animProgress = @ + animStep]

Land(c) ==
    [c EXCEPT !.gy = 0,
              !.isThrown = FALSE,
              !.isFloating = FALSE,
              !.throwVelocity = NoVec,
              !.dropVelocity = Undef,
              !.animationState = "walk"]

Thrown(h, reg, o) ==
    LET c == h[o]
    IN  IF Hypot(c.x, c.z) > screenEdgeDistance /\ ~c.isDying
        THEN [h EXCEPT ![o] = [StartDying(c) EXCEPT
                                   !.throwVelocity = [@ EXCEPT !.x = 0, !.z = 0],
                                   !.dropVelocity = 0]]
        ELSE LET h1 == FlightCollisions(h, reg, o)
                 c1 == Fly(h1[o])
             IN  [h1 EXCEPT ![o] = IF c1.gy <= 0 THEN Land(c1) ELSE c1]

(***************************************************************************)
(* A character that was put down gently sinks to the ground.               *)
(***************************************************************************)
GentleDrop(c) ==
    LET c1 == [c EXCEPT !.gy = @ + c.dropVelocity,
                        !.dropVelocity = @ - 10,
                        !.animProgress = @ + animStep]
    IN  IF c1.gy <= 0
        THEN [c1 EXCEPT !.gy = 0, !.isFloating = FALSE, !.dropVelocity = Undef,
                        !.animationState = "walk"]
        ELSE c1

(***************************************************************************)
(* Direction helpers: d / dist in 1/1000, and its product with a length.   *)
(* No guard is added here: d / 0 is not a number, and neither is its       *)
(* product with a length.                                                  *)
(***************************************************************************)
Dir(d, dist) == IF dist = 0 THEN NotFinite ELSE Scale(d, 1000, dist)
Times(u, len) == IF u = NotFinite THEN NotFinite ELSE Scale(u * (len \div 10), 1, 100)

\* the angle between two directions, as the hit test computes it
RotDiff(a, b) ==
    LET d == Abs(a - b) % 360
    IN  IF d > 180 THEN 360 - d ELSE d

(***************************************************************************)
(* Every 5 s a character that is not engaged rolls whether to attack: on   *)
(* success it takes the nearest other character 50 to 200 units away as    *)
(* hitTargetPlayer.                                                        *)
(***************************************************************************)
\* a search that settles for the first character in range
firstPlayerInRange(h, reg, o) ==
    LET c == h[o]
        D(p) == Hypot(c.x - h[p].x, c.z - h[p].z)
        Ok(i) == /\ reg[i] # o
                 /\ h[reg[i]].animationState # "run"
                 /\ D(reg[i]) >= 50 * Unit
                 /\ D(reg[i]) <= 200 * Unit
        first == {i \in 1..Len(reg) : Ok(i) /\ \A j \in 1..(i - 1) : ~Ok(j)}
    IN  IF first = {} THEN NoChar ELSE reg[CHOOSE i \in first : TRUE]

closestPlayer(h, reg, o) ==
    LET c == h[o]
        D(p) == Hypot(c.x - h[p].x, c.z - h[p].z)
        Ok(i) == /\ reg[i] # o
                 /\ h[reg[i]].animationState # "run"
                 /\ D(reg[i]) >= 50 * Unit
                 /\ D(reg[i]) <= 200 * Unit
        best == {i \in 1..Len(reg) :
                    /\ Ok(i)
                    /\ \A j \in 1..Len(reg) : Ok(j) =>
                          \/ D(reg[i]) < D(reg[j])
                          \/ (D(reg[i]) = D(reg[j]) /\ i <= j)}
    IN  IF best = {} THEN NoChar ELSE reg[CHOOSE i \in best : TRUE]

HitDecision(h, reg, o, rnd) ==
    LET c == h[o]
    IN  IF c.formationMode \/ c.hitTargetPlayer # NoChar \/ c.isHitting
           \/ c.animationState = "run"
        THEN c
        ELSE LET t0 == IF c.hitDecisionTimer = Undef \/ c.hitDecisionTimer = 0
                       THEN 5 * Sec ELSE c.hitDecisionTimer
                 t1 == t0 - DT
                 victim == closestPlayer(h, reg, o)
             IN  IF t1 > 0 THEN [c EXCEPT !.hitDecisionTimer = t1]
                 ELSE IF o \in rnd.hitRoll /\ victim # NoChar
                 THEN [c EXCEPT !.hitDecisionTimer = 5 * Sec,
                                !.hitTargetPlayer = victim,
                                !.targetX = h[victim].x,
                                !.targetZ = h[victim].z,
                                !.changeTargetTime = 999 * Sec]
                 ELSE [c EXCEPT !.hitDecisionTimer = 5 * Sec]

(***************************************************************************)
(* Seeking: the target follows hitTargetPlayer (an object reference, read  *)
(* whether or not that object is still in the registry); the hit lands     *)
(* when the distance is between 0.5 and 4 and rotation.y is within 30      *)
(* degrees of atan2(distX, distZ).                                         *)
(***************************************************************************)
knockbackUp == 18 * Sec
knockbackBack == 15

HitLanded(victim, attacker, distX, distZ, dist, nowMs, rnd) ==
    LET ux == Dir(distX, dist)
        uz == Dir(distZ, dist)
    IN  [victim EXCEPT
            !.isBeingHit = TRUE,
            !.hitTimer = (6 * Sec) \div 10,
            !.knockbackVelocity = Vec(ux * knockbackBack, knockbackUp, uz * knockbackBack),
            !.knockbackStartTime = nowMs,
            !.knockbackMinDuration = 800,
            !.knockedAt = timeRef + DT,
            !.runAwayTimer = (6 + 4 * rnd.u) * Sec,
            !.runAwayTarget = Vec(Scale(victim.x - Times(ux, 180 * Unit), 9, 10), 0,
                                  Scale(victim.z - Times(uz, 180 * Unit), 9, 10)),
            !.runAwayFrom = attacker,
            !.shouldRunAway = TRUE,
            !.wasHitByPlayer = TRUE]

Seek(h, o, env, rnd) ==
    LET c == h[o]
        v == c.hitTargetPlayer
    IN  IF v = NoChar \/ c.isHitting THEN h
        ELSE LET targetX == h[v].x
                 targetZ == h[v].z
                 distX == c.x - targetX
                 distZ == c.z - targetZ
                 dist == Hypot(distX, distZ)
                 rotDiff == RotDiff(Atan2(distX, distZ), c.rotY)
                 c1 == [c EXCEPT !.targetX = targetX, !.targetZ = targetZ]
             IN  IF dist < 4 * Unit /\ dist > Unit \div 2 /\ rotDiff < 30
                 THEN [h EXCEPT
                          ![o] = [c1 EXCEPT !.isHitting = TRUE,
                                            !.hitAnimationTimer = Sec \div 2,
                                            !.hitTargetPlayer = NoChar,
                                            !.changeTargetTime = 0],
                          ![v] = HitLanded(h[v], o, distX, distZ, dist, env.now, rnd)]
                 ELSE IF dist > 250 * Unit
                 THEN [h EXCEPT ![o] = [c1 EXCEPT !.hitTargetPlayer = NoChar,
                                                  !.changeTargetTime = 0]]
                 ELSE [h EXCEPT ![o] = c1]

\* the 0.5 s hit animation, then idle for 2 to 4 s
HitAnimation(c, rnd) ==
    IF c.isHitting /\ c.hitAnimationTimer # Undef
    THEN IF c.hitAnimationTimer - DT <= 0
         THEN [c EXCEPT !.isHitting = FALSE,
                        !.hitAnimationTimer = Undef,
                        !.animationState = "idle",
                        !.idleDuration = (2 + 2 * rnd.u) * Sec,
                        !.animProgress = 0]
         ELSE [c EXCEPT !.hitAnimationTimer = @ - DT]
    ELSE c

(***************************************************************************)
(* Running away: while runAwayTimer runs, the flight target is renewed as  *)
(* long as the runAwayFrom object has a path and a group (every character  *)
(* object has, in or out of the registry) and is less than 300 units away. *)
(***************************************************************************)
StopRunAway(c) ==
    [c EXCEPT !.animationState = "walk",
              !.runAwayTimer = Undef,
              !.runAwayTarget = NoVec,
              !.runAwayFrom = NoChar]

RunAway(h, o) ==
    LET c == h[o]
    IN  IF c.runAwayTimer = Undef \/ c.runAwayTimer <= 0 THEN c
        ELSE LET c1 == [c EXCEPT !.runAwayTimer = @ - DT]
                 from == c.runAwayFrom
                 dirX == c.x - h[from].x
                 dirZ == c.z - h[from].z
                 runAwayDist == Hypot(dirX, dirZ)
                 c2 == IF from # NoChar
                       THEN IF runAwayDist > 0 /\ runAwayDist < 300 * Unit
                            THEN [c1 EXCEPT !.runAwayTarget =
                                     Vec(Scale(c.x + Times(Dir(dirX, runAwayDist), 180 * Unit), 9, 10), 0,
                                         Scale(c.z + Times(Dir(dirZ, runAwayDist), 180 * Unit), 9, 10))]
                            ELSE StopRunAway(c1)
                       ELSE StopRunAway(c1)
             IN  IF c2.runAwayTimer # Undef /\ c2.runAwayTimer <= 0
                 THEN StopRunAway(c2) ELSE c2

\* wave countdown and the default walking state
AnimationStateLogic(c, isBeingDragged) ==
    IF isBeingDragged \/ c.isHitting THEN c
    ELSE IF c.animationState = "wave"
    THEN IF c.waveDuration # Undef /\ c.waveDuration > 0
         THEN IF c.waveDuration - DT <= 0
              THEN [c EXCEPT !.animationState = "walk", !.waveDuration = Undef]
              ELSE [c EXCEPT !.waveDuration = @ - DT]
         ELSE IF c.waveDuration = Undef
         THEN [c EXCEPT !.animationState = "walk"]
         ELSE c
    ELSE c

(***************************************************************************)
(* Target selection: 25 random candidates, those nearer than               *)
(* minTargetDistance to the character dropped, scored by crowd density.    *)
(* A candidate is [x, z, noise]: its polar draw, already converted, and    *)
(* its randomNoise draw in 1/1000.  Densities are in 1/1000.               *)
(***************************************************************************)
maxTargetDistance == 450 * Unit
minTargetDistance == 120 * Unit

\* (radius - d) / radius when 0 < d < radius, else 0
Falloff(d, radius) == IF d < radius /\ d > 0 THEN ((radius - d) * 1000) \div radius ELSE 0

\* density at (px, pz): other characters within densityRadius, and three
\* times as heavily other characters' targets within 100
PointDensity(h, reg, o, px, pz, densityRadius) ==
    LET F[i \in 0..Len(reg)] ==
            IF i = 0 THEN 0
            ELSE IF reg[i] = o THEN F[i - 1]
            ELSE LET other == h[reg[i]]
                 IN  F[i - 1]
                     + Falloff(Hypot(px - other.x, pz - other.z), densityRadius)
                     + 3 * Falloff(Hypot(px - other.targetX, pz - other.targetZ), 100 * Unit)
    IN  F[Len(reg)]

CandidateDensity(h, reg, o, cand) ==
    LET candidateDensity == PointDensity(h, reg, o, cand.x, cand.z, 120 * Unit)
        bottomPenalty == IF cand.z < 0 THEN (Abs(cand.z) * 2) \div (maxTargetDistance \div 1000) ELSE 0
    IN  ((candidateDensity + bottomPenalty) * (1000 + cand.noise)) \div 1000

\* Array.prototype.sort with a comparator a.key - b.key (stable)
RECURSIVE InsertSorted(_, _, _)
InsertSorted(sorted, e, i) ==
    IF i > Len(sorted) THEN Append(sorted, e)
    ELSE IF e.key < sorted[i].key
    THEN SubSeq(sorted, 1, i - 1) \o <<e>> \o SubSeq(sorted, i, Len(sorted))
    ELSE InsertSorted(sorted, e, i + 1)

SortByKey(seq) ==
    LET F[i \in 0..Len(seq)] ==
            IF i = 0 THEN << >> ELSE InsertSorted(F[i - 1], seq[i], 1)
    IN  F[Len(seq)]

\* the candidates that pass the distance filter, with their density
Candidates(h, reg, o, cands) ==
    LET c == h[o]
        F[i \in 0..Len(cands)] ==
            IF i = 0 THEN << >>
            ELSE IF Hypot(cands[i].x - c.x, cands[i].z - c.z) < minTargetDistance
            THEN F[i - 1]
            ELSE Append(F[i - 1], [x |-> cands[i].x, z |-> cands[i].z,
                                   key |-> CandidateDensity(h, reg, o, cands[i])])
    IN  F[Len(cands)]

\* 0.7 of the distance from the character plus 0.3 of that from the centre
combinedDistance(c, k) ==
    ((7 * Hypot(k.x - c.x, k.z - c.z)) \div 10) + ((3 * Hypot(k.x, k.z)) \div 10)

Picked(k) == [threw |-> FALSE, x |-> k.x, z |-> k.z]

\* a choice that takes the first of the best candidates as they come
FirstBest(c, bestCandidates) == Picked(bestCandidates[1])

\* sorted by descending combinedDistance: the first maximum
Farthest(c, bestCandidates) ==
    Picked(bestCandidates[
        CHOOSE i \in 1..Len(bestCandidates) :
            /\ \A j \in 1..Len(bestCandidates) :
                  combinedDistance(c, bestCandidates[j]) <= combinedDistance(c, bestCandidates[i])
            /\ \A j \in 1..(i - 1) :
                  combinedDistance(c, bestCandidates[j]) < combinedDistance(c, bestCandidates[i])])

\* those within 10% of the lowest density
WithinLowest(c, topCandidates) ==
    Farthest(c, SelectSeq2(topCandidates, LAMBDA k : k.key * 10 <= topCandidates[1].key * 11))

\* topCandidates[0].density is read without a length test: with no
\* candidate left it is a TypeError (threw)
TopFifth(c, candidates) ==
    IF Len(candidates) = 0 THEN [threw |-> TRUE, x |-> 0, z |-> 0]
    ELSE WithinLowest(c, SubSeq(candidates, 1, Max(1, Len(candidates) \div 5)))

SelectTarget(h, reg, o, cands) == TopFifth(h[o], SortByKey(Candidates(h, reg, o, cands)))

(***************************************************************************)
(* Pathing phases of one character's update.  They work on a record st of  *)
(* the character c and the locals dx, dz, distance of the handler; threw   *)
(* records an uncaught TypeError.                                          *)
(***************************************************************************)
\* the record the pathing phases work on
PathState(c) ==
    [c |-> c, dx |-> 0, dz |-> 0, distance |-> 0, avoidX |-> 0, avoidZ |-> 0, threw |-> FALSE]

Put(h, o, c) == [h EXCEPT ![o] = c]

WithTarget(st) ==
    LET dx == st.c.targetX - st.c.x
        dz == st.c.targetZ - st.c.z
    IN  [st EXCEPT !.dx = dx, !.dz = dz, !.distance = Hypot(dx, dz)]

\* the outcome of a selection applied to the character
Retarget(c, sel, time) ==
    IF sel.threw THEN c
    ELSE [c EXCEPT !.targetX = sel.x, !.targetZ = sel.z, !.changeTargetTime = time]

FirstTarget(c, sel) == [PathState(Retarget(c, sel, c.changeTargetTime)) EXCEPT !.threw = sel.threw]

FirstTimer(h, reg, o, c1, rnd) ==
    FirstTarget(c1, SelectTarget(Put(h, o, c1), reg, o, rnd.cands))

\* if (!path.changeTargetTime): pick a target
InitialSelection(h, reg, o, c, rnd) ==
    IF c.changeTargetTime # 0 THEN PathState(c)
    ELSE FirstTimer(h, reg, o, [c EXCEPT !.changeTargetTime = (4 + 5 * rnd.u) * Sec], rnd)

\* an idle hold that ends without forcing a new target
IdleWithoutReplan(st, rnd) ==
    LET c == st.c
    IN  IF c.animationState = "idle"
        THEN IF c.idleDuration # Undef /\ c.idleDuration - DT > 0
             THEN [st EXCEPT !.c = [c EXCEPT !.idleDuration = @ - DT]]
             ELSE [st EXCEPT !.c = [c EXCEPT !.animationState = "walk",
                                             !.idleDuration = Undef]]
        ELSE IF st.distance < 10 * Unit /\ c.animationState = "walk"
                /\ c.hitTargetPlayer = NoChar /\ ~c.waypoint.set
        THEN [st EXCEPT !.c = [c EXCEPT !.animationState = "idle",
                                        !.idleDuration = (2 + 3 * rnd.u) * Sec]]
        ELSE st

\* idle countdown, and entering idle on arrival
IdleHandling(st, rnd) ==
    LET c == st.c
    IN  IF c.animationState = "idle"
        THEN IF c.idleDuration # Undef
             THEN IF c.idleDuration - DT <= 0
                  THEN [st EXCEPT !.c = [c EXCEPT !.animationState = "walk",
                                                  !.idleDuration = Undef,
                                                  !.changeTargetTime = 0]]
                  ELSE [st EXCEPT !.c = [c EXCEPT !.idleDuration = @ - DT]]
             ELSE [st EXCEPT !.c = [c EXCEPT !.animationState = "walk",
                                             !.changeTargetTime = 0]]
        ELSE IF st.distance < 10 * Unit /\ c.animationState = "walk"
                /\ c.hitTargetPlayer = NoChar /\ ~c.waypoint.set
        THEN [st EXCEPT !.c = [c EXCEPT !.animationState = "idle",
                                        !.idleDuration = (2 + 3 * rnd.u) * Sec]]
        ELSE st

\* progress tracking
StuckTracking(st) ==
    LET c == st.c
        c1 == IF c.lastDistanceToTarget = Undef \/ c.lastDistanceToTarget = 0
              THEN [c EXCEPT !.lastDistanceToTarget = st.distance, !.stuckTimer = 0]
              ELSE c
        progressMade == c1.lastDistanceToTarget - st.distance
    IN  IF progressMade < Unit \div 2 /\ st.distance > 10 * Unit
        THEN [st EXCEPT !.c = [c1 EXCEPT !.stuckTimer = @ + DT]]
        ELSE [st EXCEPT !.c = [c1 EXCEPT !.stuckTimer = 0,
                                         !.lastDistanceToTarget = st.distance]]

\* every 0.5 s: 5 points along the way to the target, blocked when more
\* than 30% of 5 of them have a character within 40 units
pathCheckPoints == 5

PathBlocked(h, reg, o, st) ==
    LET c == st.c
        Near(i, p) == Hypot(c.x + (st.dx * i) \div pathCheckPoints - h[p].x,
                            c.z + (st.dz * i) \div pathCheckPoints - h[p].z) < 40 * Unit
        blockedCount == Cardinality({<<i, k>> \in (1..pathCheckPoints) \X (1..Len(reg)) :
                                        reg[k] # o /\ Near(i, reg[k])})
    IN  10 * blockedCount > 3 * pathCheckPoints

steeringRadius == 80 * Unit

\* score of the steering direction angle, in 1/1000
SteerScore(h, reg, o, c, angle) ==
    LET steerX == c.x + Times(Cos(angle), steeringRadius)
        steerZ == c.z + Times(Sin(angle), steeringRadius)
        F[i \in 0..Len(reg)] ==
            IF i = 0 THEN 0
            ELSE IF reg[i] = o THEN F[i - 1]
            ELSE LET other == h[reg[i]]
                 IN  F[i - 1]
                     + (IF Hypot(steerX - other.x, steerZ - other.z) < 50 * Unit THEN 10000 ELSE 0)
                     + (IF Hypot(steerX - other.targetX, steerZ - other.targetZ) < 80 * Unit
                        THEN 5000 ELSE 0)
    IN  F[Len(reg)] + Hypot(steerX - c.targetX, steerZ - c.targetZ) \div 10

Steering(h, reg, o, st, isPathBlocked) ==
    LET c == st.c
    IN  IF (c.stuckTimer > 2 * Sec \/ isPathBlocked) /\ c.hitTargetPlayer = NoChar
           /\ c.animationState # "idle"
        THEN LET targetAngle == Atan2(st.dx, st.dz)
                 Angle(i) == targetAngle + (i - 4) * 30
                 Score(i) == SteerScore(h, reg, o, c, Angle(i))
                 best == CHOOSE i \in 1..7 :
                             /\ \A j \in 1..7 : Score(i) <= Score(j)
                             /\ \A j \in 1..(i - 1) : Score(i) < Score(j)
                 waypointX == c.x + Times(Cos(Angle(best)), steeringRadius)
                 waypointZ == c.z + Times(Sin(Angle(best)), steeringRadius)
             IN  IF Score(best) < 50000
                 THEN IF Hypot(waypointX, waypointZ) < maxTargetDistance
                      THEN [st EXCEPT !.c = [c EXCEPT !.waypoint = Vec(waypointX, 0, waypointZ),
                                                      !.stuckTimer = 0,
                                                      !.lastDistanceToTarget = st.distance]]
                      ELSE st
                 ELSE [st EXCEPT !.c = [c EXCEPT !.changeTargetTime = 0,
                                                 !.stuckTimer = 0,
                                                 !.lastDistanceToTarget = Undef]]
        ELSE st

BlockedAndSteering(h, reg, o, st) ==
    LET timer == st.c.pathBlockedCheckTimer + DT
        check == timer > Sec \div 2 /\ st.distance > 15 * Unit
        st1 == [st EXCEPT !.c = [st.c EXCEPT !.pathBlockedCheckTimer = IF check THEN 0 ELSE timer]]
    IN  Steering(h, reg, o, st1, check /\ PathBlocked(h, reg, o, st1))

\* head for the waypoint while there is one
UseWaypoint(st) ==
    IF ~st.c.waypoint.set THEN st
    ELSE LET waypointDx == st.c.waypoint.x - st.c.x
             waypointDz == st.c.waypoint.z - st.c.z
             waypointDist == Hypot(waypointDx, waypointDz)
         IN  IF waypointDist < 20 * Unit
             THEN [st EXCEPT !.c = [st.c EXCEPT !.waypoint = NoVec]]
             ELSE [st EXCEPT !.dx = waypointDx, !.dz = waypointDz, !.distance = waypointDist]

NewTarget(st, c1, sel, time) ==
    IF sel.threw THEN [st EXCEPT !.c = c1, !.threw = TRUE]
    ELSE WithTarget([st EXCEPT !.c = Retarget(c1, sel, time)])

TimerRun(h, reg, o, st, c1, free, rnd) ==
    IF (c1.changeTargetTime <= 0 \/ st.distance < 5 * Unit) /\ free
    THEN NewTarget(st, c1, SelectTarget(Put(h, o, c1), reg, o, rnd.cands),
                   (4 + 5 * rnd.u) * Sec)
    ELSE [st EXCEPT !.c = c1]

Free(c) == c.hitTargetPlayer = NoChar /\ c.animationState # "idle" /\ ~c.formationMode

\* the replan timer and the new target when it runs out or on arrival
Replan(h, reg, o, st, rnd) ==
    TimerRun(h, reg, o, st,
             IF Free(st.c) THEN [st.c EXCEPT !.changeTargetTime = Less(@, DT)] ELSE st.c,
             Free(st.c), rnd)

(***************************************************************************)
(* Avoidance: a push back towards the centre beyond 450 units, a push away *)
(* from characters closer than 30, an escape target when one is closer     *)
(* than 25, and a move to a less crowded direction when it is crowded.     *)
(* avoidX, avoidZ are in 1/1000 unit.                                      *)
(***************************************************************************)
maxDistanceFromCenter == 450 * Unit

EdgePush(c) ==
    LET centerDist == Hypot(c.x, c.z)
        pushStrength == (centerDist - maxDistanceFromCenter) \div 50
    IN  IF centerDist > maxDistanceFromCenter
        THEN [x |-> -Times(Dir(c.x, centerDist), pushStrength),
              z |-> -Times(Dir(c.z, centerDist), pushStrength)]
        ELSE [x |-> 0, z |-> 0]

\* the new target is taken when it is inside the bounds and 50 away
TryTarget(st, newTargetX, newTargetZ, time) ==
    IF Hypot(newTargetX, newTargetZ) < maxTargetDistance
       /\ Hypot(newTargetX - st.c.x, newTargetZ - st.c.z) >= 50 * Unit
    THEN WithTarget([st EXCEPT !.c = [st.c EXCEPT !.targetX = newTargetX,
                                                  !.targetZ = newTargetZ,
                                                  !.changeTargetTime = time]])
    ELSE st

avoidanceRadius == 30 * Unit
minDistance == 25 * Unit

\* an avoidance that leaves out the dist > 0 test
AvoidOneAtZero(st, other) ==
    LET c == st.c
        distX == c.x - other.x
        distZ == c.z - other.z
        dist == Hypot(distX, distZ)
        avoidStrength == Falloff(dist, avoidanceRadius)
        st1 == [st EXCEPT !.avoidX = @ + Times(Dir(distX, dist), avoidStrength \div 2),
                          !.avoidZ = @ + Times(Dir(distZ, dist), avoidStrength \div 2)]
    IN  IF dist < avoidanceRadius
        THEN IF dist < minDistance /\ c.animationState # "run" /\ st.distance > 15 * Unit
             THEN TryTarget(st1, c.x + Times(Dir(distX, dist), 80 * Unit),
                                 c.z + Times(Dir(distZ, dist), 80 * Unit), (3 * Sec) \div 10)
             ELSE st1
        ELSE st

AvoidOne(st, other) ==
    LET c == st.c
        distX == c.x - other.x
        distZ == c.z - other.z
        dist == Hypot(distX, distZ)
        avoidStrength == Falloff(dist, avoidanceRadius)
        st1 == [st EXCEPT !.avoidX = @ + Times(Dir(distX, dist), avoidStrength \div 2),
                          !.avoidZ = @ + Times(Dir(distZ, dist), avoidStrength \div 2)]
    IN  IF dist < avoidanceRadius /\ dist > 0
        THEN IF dist < minDistance /\ c.animationState # "run" /\ st.distance > 15 * Unit
             THEN TryTarget(st1, c.x + Times(Dir(distX, dist), 80 * Unit),
                                 c.z + Times(Dir(distZ, dist), 80 * Unit), (3 * Sec) \div 10)
             ELSE st1
        ELSE st

LocalDensity(h, reg, o, c) ==
    LET F[i \in 0..Len(reg)] ==
            IF i = 0 THEN 0
            ELSE IF reg[i] = o THEN F[i - 1]
            ELSE F[i - 1] + Falloff(Hypot(c.x - h[reg[i]].x, c.z - h[reg[i]].z), 80 * Unit)
    IN  F[Len(reg)]

sampleRadius == 100 * Unit

\* 8 directions, those inside the bounds sorted by density; one of the
\* best 40% is taken when it is less crowded than 80% of here
Crowded(h, reg, o, st, localDensity, rnd) ==
    LET c == st.c
        SX(k) == c.x + Times(Cos(45 * (k - 1)), sampleRadius)
        SZ(k) == c.z + Times(Sin(45 * (k - 1)), sampleRadius)
        F[k \in 0..8] ==
            IF k = 0 THEN << >>
            ELSE IF Hypot(SX(k), SZ(k)) < maxTargetDistance
            THEN Append(F[k - 1], [x |-> SX(k), z |-> SZ(k),
                                   key |-> PointDensity(h, reg, o, SX(k), SZ(k), 80 * Unit)])
            ELSE F[k - 1]
        candidates == SortByKey(F[8])
        topCount == Max(1, (Len(candidates) * 4) \div 10)
        selected == candidates[IF rnd.u = 0 THEN 1 ELSE topCount]
    IN  IF localDensity > 2500 /\ c.changeTargetTime < (3 * Sec) \div 2
           /\ Len(candidates) > 0 /\ selected.key * 10 < localDensity * 8
        THEN TryTarget(st, selected.x, selected.z, Sec \div 2)
        ELSE st

Avoidance(h, reg, o, st, rnd) ==
    LET push == EdgePush(st.c)
        st0 == [st EXCEPT !.avoidX = push.x, !.avoidZ = push.z]
        F[i \in 0..Len(reg)] ==
            IF i = 0 THEN st0
            ELSE IF reg[i] = o THEN F[i - 1]
            ELSE AvoidOne(F[i - 1], h[reg[i]])
    IN  IF st.c.hitTargetPlayer # NoChar THEN st0
        ELSE Crowded(h, reg, o, F[Len(reg)], LocalDensity(h, reg, o, st.c), rnd)

(***************************************************************************)
(* Movement: the step towards the target is a length per frame (it is not  *)
(* multiplied by deltaTime), plus a fifth of the avoidance push.           *)
(***************************************************************************)
moveSpeed(c) ==
    IF c.hitTargetPlayer # NoChar THEN (baseMoveSpeed * 11) \div 10
    ELSE IF c.animationState # "run" THEN (baseMoveSpeed * 85) \div 100
    ELSE baseMoveSpeed

Move(st) ==
    LET den == Max(st.distance, Unit \div 10)
    IN  [x |-> Times(Dir(st.dx, den), moveSpeed(st.c)) + st.avoidX \div 5,
         z |-> Times(Dir(st.dz, den), moveSpeed(st.c)) + st.avoidZ \div 5]

\* Math.sign(diff) * Math.min(Math.abs(diff * rotationSpeed), 0.15) with
\* rotationSpeed = Math.min(0.15, Math.abs(diff) * 0.5 + 0.08), in degrees
TurnClamped(current, target) ==
    LET d0 == NormAngle(target) - NormAngle(current)
        diff == IF d0 > 180 THEN d0 - 360 ELSE IF d0 < -180 THEN d0 + 360 ELSE d0
        rotationSpeed == Min(150, 80 + (Abs(diff) * 8727) \div 1000)
    IN  NormAngle(current + Sign(diff) * Min((Abs(diff) * rotationSpeed + 500) \div 1000, 9))

Rotation(h, c, move) ==
    IF c.hitTargetPlayer # NoChar /\ ~c.isHitting
    THEN LET targetDirX == h[c.hitTargetPlayer].x - c.x
             targetDirZ == h[c.hitTargetPlayer].z - c.z
             targetDist == Hypot(targetDirX, targetDirZ)
         IN  IF targetDist > 1
             THEN [c EXCEPT !.rotY = RotateTowards(@, Atan2(targetDirX, targetDirZ),
                                                   IF targetDist < 20 * Unit THEN 50 ELSE 30)]
             ELSE c
    ELSE IF c.animationState \in {"wave", "idle"}
    THEN [c EXCEPT !.rotY = RotateTowards(@, 45, 20)]
    ELSE IF c.animationState = "run" /\ c.runAwayTarget.set
    THEN LET runAwayDx == c.runAwayTarget.x - c.x
             runAwayDz == c.runAwayTarget.z - c.z
         IN  IF Hypot(runAwayDx, runAwayDz) > 1
             THEN [c EXCEPT !.rotY = RotateTowards(@, Atan2(runAwayDx, runAwayDz), 30)]
             ELSE c
    ELSE IF Hypot(move.x, move.z) > 1
    THEN [c EXCEPT !.rotY = TurnClamped(@, Atan2(move.x, move.z))]
    ELSE c

\* released from a drag without a throw: falls at dropVelocity, 0.5 faster
\* every frame
NormalDrop(c) ==
    IF ~c.isFloating /\ c.dropVelocity # Undef /\ c.gy > 0
    THEN LET y == c.gy + c.dropVelocity
         IN  IF y <= 0
             THEN [c EXCEPT !.gy = 0, !.dropVelocity = Undef]
             ELSE [c EXCEPT !.gy = y, !.dropVelocity = @ - 60]
    ELSE c

\* the red overlay of the victim of a character, then it starts to run
BeingHitTimer(c) ==
    IF c.isBeingHit /\ c.hitTimer # Undef
    THEN IF c.hitTimer - DT <= 0
         THEN LET c1 == [c EXCEPT !.isBeingHit = FALSE, !.hitTimer = Undef]
              IN  IF c.shouldRunAway /\ c.runAwayTimer # Undef
                  THEN [c1 EXCEPT !.animationState = "run", !.shouldRunAway = FALSE]
                  ELSE c1
         ELSE [c EXCEPT !.hitTimer = @ - DT]
    ELSE c

\* a knockback that ends as soon as knockbackMinDuration has passed on the
\* clock, wherever the character is
KnockbackByClock(c, nowMs, rnd) ==
    IF ~c.knockbackVelocity.set THEN c
    ELSE LET v == c.knockbackVelocity
             elapsedEnough == \/ c.knockbackStartTime = Undef
                              \/ c.knockbackMinDuration = Undef
                              \/ nowMs - c.knockbackStartTime >= c.knockbackMinDuration
             c1 == [c EXCEPT !.x = @ + PerTick(v.x),
                             !.z = @ + PerTick(v.z),
                             !.gy = @ + v.y,
                             !.knockbackVelocity = [v EXCEPT !.y = @ - 60]]
         IN  IF elapsedEnough
             THEN [c1 EXCEPT !.gy = 0,
                             !.knockbackVelocity = NoVec,
                             !.knockbackStartTime = Undef,
                             !.knockbackMinDuration = Undef,
                             !.wasHitByPlayer = FALSE]
             ELSE IF c1.gy <= 0
             THEN [c1 EXCEPT !.gy = 0, !.x = @ + PerTick(v.x), !.z = @ + PerTick(v.z)]
             ELSE c1

\* knockback: the velocity moves path.x, path.z and the height, gravity
\* takes 0.5 from the vertical velocity every frame, and it ends on the
\* ground once knockbackMinDuration has passed
Knockback(c, nowMs, rnd) ==
    IF ~c.knockbackVelocity.set THEN c
    ELSE LET v == c.knockbackVelocity
             elapsedEnough == \/ c.knockbackStartTime = Undef
                              \/ c.knockbackMinDuration = Undef
                              \/ nowMs - c.knockbackStartTime >= c.knockbackMinDuration
             c1 == [c EXCEPT !.x = @ + PerTick(v.x),
                             !.z = @ + PerTick(v.z),
                             !.gy = @ + v.y,
                             !.knockbackVelocity = [v EXCEPT !.y = @ - 60]]
         IN  IF c1.gy <= 0 /\ elapsedEnough
             THEN LET c2 == [c1 EXCEPT !.gy = 0,
                                       !.knockbackVelocity = NoVec,
                                       !.knockbackStartTime = Undef,
                                       !.knockbackMinDuration = Undef]
                  IN  IF c2.animationState = "run"
                      THEN [c2 EXCEPT !.wasHitByPlayer = FALSE]
                      ELSE IF ~c2.wasHitByPlayer
                      THEN [c2 EXCEPT !.animationState = "wave",
                                      !.waveDuration = (4 + 2 * rnd.u) * Sec,
                                      !.animProgress = 0]
                      ELSE [c2 EXCEPT !.wasHitByPlayer = FALSE]
             ELSE IF c1.gy <= 0
             THEN [c1 EXCEPT !.gy = 0, !.x = @ + PerTick(v.x), !.z = @ + PerTick(v.z)]
             ELSE c1

runSpeed == (baseMoveSpeed * 5) \div 2
lerpPct == 35

\* a position update that lets the movement of the tick act on a standing
\* character too
PositionUpdateOfAll(c, move, isBeingDragged) ==
    LET new == IF ~c.knockbackVelocity.set /\ ~isBeingDragged
               THEN [x |-> c.x + move.x, z |-> c.z + move.z]
               ELSE [x |-> c.x, z |-> c.z]
        gx == c.gx + Scale(new.x - c.gx, lerpPct, 100)
        gz == c.gz + Scale(new.z - c.gz, lerpPct, 100)
    IN  [c EXCEPT !.gx = gx, !.gz = gz, !.x = gx, !.z = gz]

\* the new position, then group.position moves 35% of the way to it and
\* path.x, path.z become group.position
PositionUpdate(c, move, isBeingDragged) ==
    LET runAwayDx == c.runAwayTarget.x - c.x
        runAwayDz == c.runAwayTarget.z - c.z
        runAwayDist == Hypot(runAwayDx, runAwayDz)
        new == IF c.animationState = "run" /\ c.runAwayTarget.set /\ ~c.knockbackVelocity.set
               THEN IF runAwayDist > Unit \div 10
                    THEN [x |-> c.x + Times(Dir(runAwayDx, runAwayDist), runSpeed),
                          z |-> c.z + Times(Dir(runAwayDz, runAwayDist), runSpeed)]
                    ELSE [x |-> c.x + move.x, z |-> c.z + move.z]
               ELSE IF c.animationState = "idle"
               THEN [x |-> c.x, z |-> c.z]
               ELSE IF c.animationState # "wave" /\ ~c.knockbackVelocity.set /\ ~isBeingDragged
               THEN [x |-> c.x + move.x, z |-> c.z + move.z]
               ELSE [x |-> c.x, z |-> c.z]
        gx == c.gx + Scale(new.x - c.gx, lerpPct, 100)
        gz == c.gz + Scale(new.z - c.gz, lerpPct, 100)
    IN  [c EXCEPT !.gx = gx, !.gz = gz, !.x = gx, !.z = gz]

\* the red overlay after a click
HitTimer(c) ==
    IF c.isHit /\ c.hitTimer # Undef
    THEN IF c.hitTimer - DT <= 0
         THEN [c EXCEPT !.isHit = FALSE, !.hitTimer = Undef]
         ELSE [c EXCEPT !.hitTimer = @ - DT]
    ELSE c

AnimProgress(c) == [c EXCEPT !.animProgress = @ + animStep]

(***************************************************************************)
(* The per-frame update of all characters (allCharacters.forEach).         *)
(***************************************************************************)
HitAnimationStep(h, o, rnd) == [h EXCEPT ![o] = HitAnimation(h[o], rnd)]

RunAwayStep(h, o, isBeingDragged) ==
    [h EXCEPT ![o] = AnimationStateLogic(RunAway(h, o), isBeingDragged)]

\* hit decision, seeking, hit animation, run-away, animation state
Behaviour(h, reg, o, env, rnd) ==
    RunAwayStep(HitAnimationStep(Seek(Put(h, o, HitDecision(h, reg, o, rnd)), o, env, rnd),
                                 o, rnd),
                o, env.draggedChar = o /\ env.isDragging)

\* idle handling to avoidance
Pathing(h, reg, o, st, rnd) ==
    Avoidance(h, reg, o,
                   Replan(h, reg, o,
                          UseWaypoint(BlockedAndSteering(h, reg, o,
                              StuckTracking(IdleHandling(WithTarget(st), rnd)))),
                          rnd),
                   rnd)

\* rotation, drop, knockback, position, timers
Physics(h, o, st, move, env, rnd) ==
    AnimProgress(HitTimer(PositionUpdate(
        Knockback(BeingHitTimer(NormalDrop(Rotation(h, st.c, move))), env.now, rnd),
        move, env.draggedChar = o /\ env.isDragging)))

Moved(h, o, st, env, rnd) ==
    IF st.threw THEN [chars |-> Put(h, o, st.c), threw |-> TRUE]
    ELSE [chars |-> Put(h, o, Physics(h, o, st, Move(st), env, rnd)), threw |-> FALSE]

Selected(h, reg, o, st, env, rnd) ==
    IF st.threw THEN [chars |-> Put(h, o, st.c), threw |-> TRUE]
    ELSE Moved(h, o, Pathing(h, reg, o, st, rnd), env, rnd)

Behaved(h, reg, o, env, rnd) ==
    Selected(h, reg, o, InitialSelection(h, reg, o, h[o], rnd), env, rnd)

\* the normal pipeline of one character, after the early returns
NormalUpdate(h, reg, o, env, rnd) == Behaved(Behaviour(h, reg, o, env, rnd), reg, o, env, rnd)

Done(hh) == [chars |-> hh, threw |-> FALSE]

FadedIn(h, reg, o, env, rnd) ==
    IF h[o].isThrown /\ h[o].throwVelocity.set THEN Done(Thrown(h, reg, o))
    ELSE IF h[o].isFloating /\ h[o].dropVelocity # Undef /\ ~h[o].isThrown
            /\ h[o].dropVelocity < 0
    THEN Done(Put(h, o, GentleDrop(h[o])))
    ELSE NormalUpdate(h, reg, o, env, rnd)

\* one iteration of allCharacters.forEach
UpdateChar(h, reg, o, env, rnd) ==
    IF h[o].isDying THEN Done(Put(h, o, Dying(h[o], rnd.sp)))
    ELSE IF h[o].formationMode THEN Done(FormationMove(h, reg, o, env))
    ELSE FadedIn(Put(h, o, FadeIn(h[o])), reg, o, env, rnd)

\* the loop's state after one more character
Collect(prev, r, oid) ==
    [chars |-> r.chars, threw |-> r.threw,
     updated |-> IF r.threw THEN prev.updated ELSE prev.updated \cup {oid}]

\* one turn of the loop; an uncaught exception has ended it
Iteration(prev, reg, oid, env, rnd) ==
    IF prev.threw THEN prev
    ELSE Collect(prev, UpdateChar(prev.chars, reg, oid, env, rnd), oid)

\* formation set-up, then every character of the registry in order
TickAll(h, reg, env, rnd) ==
    LET F[i \in 0..Len(reg)] ==
            IF i = 0 THEN [chars |-> FormationSetup(h, reg, env), threw |-> FALSE, updated |-> {}]
            ELSE Iteration(F[i - 1], reg, reg[i], env, rnd)
    IN  F[Len(reg)]

(***************************************************************************)
(* animate(currentTime).  The driver (requestAnimationFrame) passes a      *)
(* timestamp; the first call, made directly when the component mounts,     *)
(* passes none, so currentTime is undefined there and every value derived  *)
(* from it is NaN.  A comparison with NaN is false.                        *)
(***************************************************************************)
Elapsed(currentTime) ==
    IF currentTime = NaN \/ lastFrameTime = NaN THEN NaN
    ELSE 3 * currentTime - lastFrameTime

\* the frame is stepped: t is the outcome of the update of all characters
Step(currentTime, elapsed, t) ==
    /\ lastFrameTime' = IF elapsed = NaN THEN NaN
                         ELSE 3 * currentTime - (elapsed % frameInterval)
    /\ timeRef' = timeRef + DT
    /\ chars' = t.chars
    /\ lastEvent' = "tick"
    /\ lastStepAt' = now'
    /\ stepLog' = [ran |-> TRUE,
                    sincePrev |-> IF lastStepAt = NaN THEN NaN ELSE now' - lastStepAt,
                    advanced |-> timeRef' - timeRef,
                    threw |-> t.threw,
                    updated |-> t.updated]

Env ==
    [now |-> now', formationMode |-> formationMode,
     selectedCluster |-> selectedCluster, clusters |-> clusters,
     draggedChar |-> draggedChar, isDragging |-> isDragging]

Throttle(currentTime, elapsed, rnd) ==
    IF elapsed # NaN /\ elapsed < frameInterval
    THEN \* skip this frame
         /\ lastEvent' = "skip"
         /\ UNCHANGED <<chars, lastFrameTime, timeRef, lastStepAt, stepLog>>
    ELSE Step(currentTime, elapsed, TickAll(chars, registry, Env, rnd))

animate(currentTime, rnd) == Throttle(currentTime, Elapsed(currentTime), rnd)

InitialAnimate(rnd) ==
    /\ ~started
    /\ started' = TRUE
    /\ now' = now
    /\ animate(NaN, rnd)
    /\ UNCHANGED <<registry, syncVars, formVars, dragVars>>

Frame(gap, rnd, limit) ==
    /\ started
    /\ now + gap <= limit
    /\ started' = started
    /\ now' = now + gap
    /\ animate(now', rnd)
    /\ UNCHANGED <<registry, syncVars, formVars, dragVars>>

FrameGaps == {7, 17, 42}
NoRnd == [none |-> TRUE]

NextClock ==
    \/ InitialAnimate(NoRnd)
    \/ \E gap \in FrameGaps : Frame(gap, NoRnd, MaxNow)

SpecClock == Init /\ [][NextClock]_vars

(***************************************************************************)
(* Pointer handlers.  findCharacterUnderMouse returns the registry entry   *)
(* nearest to the pointer on the screen, whatever it is doing; the pointer *)
(* is modelled by the character it is over (o) and, for a move, by the     *)
(* ground point p under it.                                                *)
(***************************************************************************)
floatHeight == 3 * YUnit
throwThreshold == 2 * Unit

(***************************************************************************)
(* The hover glow.  handleMouseMove takes the glow off the character that  *)
(* hoveredCharRef names when the pointer is over another one or over none, *)
(* and puts it on the character the pointer is over (h, or NoChar).        *)
(***************************************************************************)
applyHoverEffect(c) == IF c.isHovered THEN c ELSE [c EXCEPT !.isHovered = TRUE]

removeHoverEffect(c) == IF ~c.isHovered THEN c ELSE [c EXCEPT !.isHovered = FALSE]

handleMouseMove(h) ==
    /\ h \in Range(registry) \cup {NoChar}
    /\ LET h1 == IF hoveredChar # NoChar /\ hoveredChar # h
                 THEN [chars EXCEPT ![hoveredChar] = removeHoverEffect(@)]
                 ELSE chars
       IN  chars' = IF h # NoChar /\ h # hoveredChar
                    THEN [h1 EXCEPT ![h] = applyHoverEffect(@)]
                    ELSE h1
    /\ hoveredChar' = h
    /\ lastEvent' = "handleMouseMove"
    /\ UNCHANGED <<registry, syncVars, clockVars, formVars, draggedChar, isDragging,
                   dragStartTime, lastDragPos, lastDragTime, dragVelocity>>

handleMouseDown(o) ==
    /\ o \in Range(registry)
    /\ draggedChar' = o
    /\ isDragging' = FALSE
    /\ dragStartTime' = now
    /\ chars' = [chars EXCEPT ![o] = [@ EXCEPT !.animationState = "idle",
                                               !.isFloating = TRUE,
                                               !.floatHeight = floatHeight,
                                               !.dropVelocity = 0,
                                               !.animProgress = 0,
                                               !.throwVelocity = Vec(0, 0, 0),
                                               !.isThrown = FALSE]]
    \* the ray through the pointer meets the ground near the character
    /\ lastDragPos' = [x |-> chars[o].x, z |-> chars[o].z]
    /\ lastDragTime' = now
    /\ dragVelocity' = [x |-> 0, z |-> 0]
    /\ lastEvent' = "handleMouseDown"
    /\ UNCHANGED <<registry, syncVars, clockVars, formVars, hoveredChar>>

\* the browser delivers one pointer move per frame at most
handleDragMove(p) ==
    /\ draggedChar # NoChar
    /\ now > lastDragTime
    /\ isDragging' = TRUE
    /\ LET deltaTime == Max(1, now - lastDragTime)
           velocityX == ((p.x - lastDragPos.x) * 1000) \div deltaTime
           velocityZ == ((p.z - lastDragPos.z) * 1000) \div deltaTime
       IN  dragVelocity' = [x |-> Scale(dragVelocity.x, 7, 10) + Scale(velocityX, 3, 10),
                            z |-> Scale(dragVelocity.z, 7, 10) + Scale(velocityZ, 3, 10)]
    /\ chars' = [chars EXCEPT ![draggedChar] =
                    [@ EXCEPT !.x = p.x, !.z = p.z, !.gx = p.x, !.gz = p.z,
                              !.gy = IF chars[draggedChar].isFloating
                                     THEN (IF chars[draggedChar].floatHeight = Undef
                                           THEN floatHeight
                                           ELSE chars[draggedChar].floatHeight)
                                     ELSE @]]
    /\ lastDragPos' = p
    /\ lastDragTime' = now
    /\ lastEvent' = "handleDragMove"
    /\ UNCHANGED <<registry, syncVars, clockVars, formVars, draggedChar, dragStartTime,
                   hoveredChar>>

\* hitCharacter: the user's hit, knocking the character up and away from
\* the camera (the camera looks along (-1, -1, -1) / sqrt(3))
hitCharacter(c, nowMs) ==
    IF c.isHit THEN c
    ELSE [c EXCEPT !.isHit = TRUE,
                   !.hitTimer = (6 * Sec) \div 10,
                   !.wasHitByPlayer = FALSE,
                   !.knockbackVelocity = Vec(10392, 22 * Sec, 10392),
                   !.knockbackStartTime = nowMs,
                   !.knockbackMinDuration = 800,
                   !.knockedAt = timeRef]

Release(c) ==
    LET throwSpeed == Hypot(dragVelocity.x, dragVelocity.z)
        tx == Scale(dragVelocity.x, 3, 2)
        tz == Scale(dragVelocity.z, 3, 2)
        ty == Min((throwSpeed \div 5000) * Sec + (((throwSpeed \div 5) % 1000) * Sec) \div 1000,
                  15 * Sec)
    IN  IF throwSpeed > throwThreshold
        THEN [c EXCEPT !.isThrown = TRUE,
                       !.isFloating = TRUE,
                       !.throwVelocity = Vec(tx, ty, tz),
                       !.dropVelocity = ty,
                       !.animationState = "idle",
                       !.rotY = Atan2(tx, tz),
                       !.wasJustDragged = TRUE]
        ELSE IF c.gy > 0
        THEN [c EXCEPT !.isFloating = TRUE,
                       !.dropVelocity = -2 * Sec,
                       !.animationState = "idle",
                       !.wasJustDragged = TRUE]
        ELSE [c EXCEPT !.isFloating = FALSE,
                       !.dropVelocity = Undef,
                       !.animationState = "walk",
                       !.wasJustDragged = TRUE]

handleMouseUp ==
    /\ draggedChar # NoChar
    /\ draggedChar' = NoChar
    /\ isDragging' = FALSE
    /\ IF ~isDragging /\ now - dragStartTime < 200
       THEN \* quick click
            /\ chars' = [chars EXCEPT ![draggedChar] =
                            [hitCharacter(removeHoverEffect(@), now)
                                EXCEPT !.isFloating = FALSE, !.gy = 0]]
            /\ UNCHANGED <<dragVelocity, lastDragPos>>
       ELSE IF isDragging
       THEN /\ chars' = [chars EXCEPT ![draggedChar] = Release(@)]
            /\ dragVelocity' = [x |-> 0, z |-> 0]
            /\ lastDragPos' = [x |-> 0, z |-> 0]
       ELSE UNCHANGED <<chars, dragVelocity, lastDragPos>>
    /\ hoveredChar' = NoChar
    /\ lastEvent' = "handleMouseUp"
    /\ UNCHANGED <<registry, syncVars, clockVars, formVars, dragStartTime, lastDragTime>>

\* the timeout that handleMouseUp sets after a drag
ClearJustDragged(o) ==
    /\ o \in DOMAIN chars
    /\ chars[o].wasJustDragged
    /\ chars' = [chars EXCEPT ![o].wasJustDragged = FALSE]
    /\ lastEvent' = "setTimeout"
    /\ UNCHANGED <<registry, syncVars, clockVars, formVars, dragVars>>

handleClick(o) ==
    /\ o \in Range(registry)
    /\ IF ~chars[o].wasJustDragged /\ ~isDragging /\ draggedChar = NoChar
       THEN /\ chars' = [chars EXCEPT ![o] = hitCharacter(removeHoverEffect(@), now)]
            /\ hoveredChar' = NoChar
       ELSE UNCHANGED <<chars, hoveredChar>>
    /\ lastEvent' = "handleClick"
    /\ UNCHANGED <<registry, syncVars, clockVars, formVars, draggedChar, isDragging,
                   dragStartTime, lastDragPos, lastDragTime, dragVelocity>>

(***************************************************************************)
(* Formation mode: the cluster buttons and the cancel button, and the 2 s  *)
(* interval that recomputes the clusters.                                  *)
(***************************************************************************)
LeaveFormation(c, u) ==
    LET c1 == [c EXCEPT !.formationMode = FALSE,
                        !.shouldDespawn = FALSE,
                        !.changeTargetTime = IF @ = 999999 * Sec THEN (4 + 5 * u) * Sec ELSE @,
                        !.reachedFormationPosition = FALSE,
                        !.waveDuration = Undef]
        c2 == IF c1.animationState \in {"run", "wave"}
              THEN [c1 EXCEPT !.animationState = "walk", !.animProgress = 0] ELSE c1
    IN  IF c2.isFadedOut THEN [c2 EXCEPT !.isFadedOut = FALSE, !.fadeOutOpacity = 0] ELSE c2

Deactivate(u) ==
    /\ selectedCluster' = NoChar
    /\ formationMode' = FALSE
    /\ chars' = [o \in DOMAIN chars |->
                    IF o \in Range(registry) THEN LeaveFormation(chars[o], u) ELSE chars[o]]

handleClusterSelect(clusterIndex, u) ==
    /\ clusterIndex \in 1..Len(clusters)
    /\ IF selectedCluster = clusterIndex
       THEN Deactivate(u)
       ELSE /\ selectedCluster' = clusterIndex
            /\ formationMode' = TRUE
            /\ UNCHANGED chars
    /\ lastEvent' = "handleClusterSelect"
    /\ UNCHANGED <<registry, syncVars, clockVars, clusters, dragVars>>

CancelFormation(u) ==
    /\ formationMode
    /\ Deactivate(u)
    /\ lastEvent' = "cancelFormation"
    /\ UNCHANGED <<registry, syncVars, clockVars, clusters, dragVars>>

ClusterInterval ==
    /\ clusters' = detectClusters(registry, chars)
    /\ clusters' # clusters
    /\ lastEvent' = "detectClusters"
    /\ UNCHANGED <<chars, registry, syncVars, clockVars, formationMode, selectedCluster, dragVars>>

(***************************************************************************)
(* The random draws of one step.  A candidate of the target selection is   *)
(* a point at a random angle and at radius 0.3 * 450 + r * 450 * (0.7 +    *)
(* bias), bias being 0.5 or 0; cands holds the 25 attempts of one          *)
(* selection.                                                              *)
(***************************************************************************)
attempts == 25

Candidate(angle, far, r, noise) ==
    LET radius == (maxTargetDistance * 3) \div 10
                  + (r * ((maxTargetDistance \div 1000) * (IF far THEN 12 ELSE 7))) \div 10
    IN  [x |-> Times(Cos(angle), radius), z |-> Times(Sin(angle), radius), noise |-> noise]

Rnds(rolls, cands) ==
    [sp : Spawns, hitRoll : rolls, u : {0, 1}, cands : cands]

(***************************************************************************)
(* The running program: the first sync has brought in a and b, the initial *)
(* animate() call has been made, the sync interval is installed.           *)
(***************************************************************************)
FirstRoster == <<Server("c1", <<"a", "b">>)>>

InitRunning ==
    /\ \E spA \in Spawns, spB \in Spawns :
          /\ spA # spB
          /\ chars = <<characterData("a", "c1", spA), characterData("b", "c1", spB)>>
    /\ registry = <<1, 2>>
    /\ syncs = << >>
    /\ syncCalls = 1
    /\ intervalOn = TRUE
    /\ lastSync = [NoSync EXCEPT !.call = 1,
                                 !.data = FirstRoster,
                                 !.onlinePlayers = fetchOnlinePlayers(TRUE, FirstRoster),
                                 !.toAdd = fetchOnlinePlayers(TRUE, FirstRoster),
                                 !.added = <<"a", "b">>]
    /\ prevRoster = fetchOnlinePlayers(TRUE, FirstRoster)
    /\ loadFailed = FALSE
    /\ now = 0
    /\ started = TRUE
    /\ lastFrameTime = NaN
    /\ timeRef = DT
    /\ lastStepAt = 0
    /\ stepLog = [NoStep EXCEPT !.ran = TRUE, !.advanced = DT]
    /\ formationMode = FALSE
    /\ selectedCluster = NoChar
    /\ clusters = <<<<"a", "b">>>>
    /\ draggedChar = NoChar
    /\ hoveredChar = NoChar
    /\ isDragging = FALSE
    /\ dragStartTime = 0
    /\ lastDragPos = [x |-> 0, z |-> 0]
    /\ lastDragTime = 0
    /\ dragVelocity = [x |-> 0, z |-> 0]
    /\ lastEvent = "syncCharacters"

NextSync ==
    \/ \E ok \in BOOLEAN, data \in ApiResponses : SyncFetched(ok, data, MaxSyncCalls)
    \/ \E s \in 1..MaxSyncCalls, k \in 1..4, sp \in Spawns : LoadDone(s, k, sp)
    \/ \E s \in 1..MaxSyncCalls, k \in 1..4 : LoadFail(s, k)
    \/ \E s \in 1..MaxSyncCalls : SyncFinish(s)
    \/ ClusterInterval

SpecSync == Init /\ [][NextSync]_vars

(***************************************************************************)
(* The user at work on the running program: pointer events, the formation  *)
(* buttons, and frames 42 ms apart.                                        *)
(***************************************************************************)
\* the driver frame gap: the first whole millisecond above the frame interval
FrameGap == 1000 \div targetFPS + 1

\* the ground points the pointer is dragged to
DragPoints == { [x |-> 100 * Unit, z |-> 2 * Unit], [x |-> 120 * Unit, z |-> -20 * Unit] }

QuietRnds == Rnds({{}}, {[i \in 1..attempts |-> Candidate(135, FALSE, 0, 0)]})

UIRnds == {r \in QuietRnds : r.u = 0 /\ r.sp.rot = 0}

\* the pointer is over the first character of the registry
UnderMouse == IF registry = << >> THEN {} ELSE {registry[1]}

NextUI ==
    \/ \E rnd \in UIRnds : Frame(FrameGap, rnd, MaxUINow)
    \/ \E o \in UnderMouse : handleMouseDown(o)
    \/ \E p \in DragPoints : handleDragMove(p)
    \/ handleMouseUp
    \/ \E o \in UnderMouse : handleClick(o)
    \/ \E o \in UnderMouse : ClearJustDragged(o)
    \/ \E k \in 1..Len(clusters) : handleClusterSelect(k, 0)
    \/ CancelFormation(0)

SpecUI == InitRunning /\ [][NextUI]_vars

(***************************************************************************)
(* The characters left to themselves: frames only, with the draws of the   *)
(* target selection.                                                       *)
(***************************************************************************)
\* the draws of a walk: every candidate far out on the x axis, every
\* candidate 135 units out on it, or every candidate at 135 degrees
WalkDraws ==
    { [i \in 1..attempts |-> Candidate(0, TRUE, 999, 0)],
      [i \in 1..attempts |-> Candidate(0, FALSE, 0, 0)],
      [i \in 1..attempts |-> Candidate(135, FALSE, 0, 0)] }

WalkRnds == {r \in Rnds({{}}, WalkDraws) : r.sp.rot = 0}

NextWalk ==
    \E rnd \in WalkRnds : Frame(FrameGap, rnd, MaxWalkNow)

SpecWalk == InitRunning /\ [][NextWalk]_vars

(***************************************************************************)
(* Frames and the 5 s sync interval.  The roster loses players; a sync     *)
(* without skin loads ends before the next frame, and the interval fires   *)
(* before the frame that follows its due time.                             *)
(***************************************************************************)
syncInterval == 5000

Rosters == { <<Server("c1", <<"a", "b">>)>>, <<Server("c1", <<"a">>)>>,
             <<Server("c1", <<"b">>)>> }

SeekRnds ==
    {r \in Rnds({{}, {1}}, {[i \in 1..attempts |-> Candidate(0, TRUE, 999, 0)]}) :
        r.u = 0 /\ r.sp.rot = 0}

SyncDue == syncCalls < MaxSeekSyncs /\ now >= syncCalls * syncInterval

TimedSync(data) ==
    /\ SyncDue
    /\ \A i \in 1..Len(fetchOnlinePlayers(TRUE, data)) :
           HasUser(registry, chars, fetchOnlinePlayers(TRUE, data)[i].username)
    /\ SyncFetched(TRUE, data, MaxSeekSyncs)

TimedFrame(rnd) ==
    /\ ~SyncDue
    /\ syncs = << >>
    /\ Frame(FrameGap, rnd, MaxSeekNow)

NextSeek ==
    \/ \E rnd \in SeekRnds : TimedFrame(rnd)
    \/ \E data \in Rosters : TimedSync(data)
    \/ \E s \in 1..MaxSeekSyncs : SyncFinish(s)

SpecSeek == InitRunning /\ [][NextSeek]_vars

(***************************************************************************)
(* Throwing: the user grabs a character, drags it and lets go, and can     *)
(* handle a character again while one is in the first ticks of its death   *)
(* sequence.  A drag to the far point within one frame ends in a throw     *)
(* over the screen edge.                                                   *)
(***************************************************************************)
MaxThrowNow == 1680
ActUntil == 84
ActTicks == 2

ThrowPoints == { [x |-> 400 * Unit, z |-> 0] }

\* the user is at the pointer
UserActs ==
    \/ now <= ActUntil
    \/ \E o \in Range(registry) :
          chars[o].isDying /\ chars[o].deathTimer > (12 * Sec) \div 10 - ActTicks * DT

NextThrow ==
    \/ \E rnd \in UIRnds : Frame(FrameGap, rnd, MaxThrowNow)
    \/ \E o \in UnderMouse : UserActs /\ draggedChar = NoChar /\ handleMouseDown(o)
    \/ \E p \in ThrowPoints : UserActs /\ handleDragMove(p)
    \/ UserActs /\ handleMouseUp
    \/ \E o \in UnderMouse : now = 0 /\ draggedChar = NoChar /\ handleClick(o)

SpecThrow == InitRunning /\ [][NextThrow]_vars

(***************************************************************************)
(* A character is knocked back by a click and the frames come at any pace: *)
(* 42 ms apart or, early on, SlowGap apart (a stalled page); meanwhile the *)
(* user presses, drags and releases it.                                    *)
(***************************************************************************)
MaxKnockNow == 5040
SlowGap == 840
SlowUntil == 42
KnockActUntil == 84
ReleaseUntil == 168

KnockGaps == {FrameGap, SlowGap}

NextKnock ==
    \/ \E gap \in KnockGaps, rnd \in UIRnds :
          /\ gap = SlowGap => now <= SlowUntil
          /\ Frame(gap, rnd, MaxKnockNow)
    \/ \E o \in UnderMouse : now = 0 /\ draggedChar = NoChar /\ handleClick(o)
    \/ \E o \in UnderMouse :
          /\ now > 0 /\ now + FrameGap <= KnockActUntil
          /\ draggedChar = NoChar
          /\ handleMouseDown(o)
    \/ \E p \in DragPoints : now <= KnockActUntil /\ handleDragMove(p)
    \/ now <= ReleaseUntil /\ handleMouseUp

SpecKnock == InitRunning /\ [][NextKnock]_vars

(***************************************************************************)
(* The second character is thrown off the screen while the first one       *)
(* walks on by itself: the pointer is over the second character from       *)
(* GrabFrom on, and while it is dying the user goes on pressing, dragging, *)
(* clicking and switching the formation.                                   *)
(***************************************************************************)
MaxDyingNow == 2100
GrabFrom == 1764
GrabFor == 42

PointerOn == IF Len(registry) < 2 THEN {} ELSE {registry[2]}

DyingRnds == {r \in Rnds({{}}, WalkDraws) : r.u = 0 /\ r.sp.rot = 0}

Grabs == now >= GrabFrom /\ now <= GrabFrom + GrabFor

Meddles ==
    \E o \in PointerOn :
        chars[o].isDying /\ chars[o].deathTimer > (12 * Sec) \div 10 - ActTicks * DT

JustDied ==
    \E o \in PointerOn :
        chars[o].isDying /\ chars[o].deathTimer > (12 * Sec) \div 10 - DT

NextDying ==
    \/ \E rnd \in DyingRnds : Frame(FrameGap, rnd, MaxDyingNow)
    \/ \E o \in PointerOn :
          (Grabs \/ Meddles) /\ draggedChar = NoChar /\ handleMouseDown(o)
    \/ \E p \in ThrowPoints : (Grabs \/ Meddles) /\ handleDragMove(p)
    \/ (Grabs \/ Meddles) /\ handleMouseUp
    \/ \E o \in PointerOn : JustDied /\ handleClick(o)
    \/ \E k \in 1..Len(clusters) : JustDied /\ handleClusterSelect(k, 0)
    \/ JustDied /\ CancelFormation(0)

SpecDying == InitRunning /\ [][NextDying]_vars

(***************************************************************************)
(* Target selection on its own: the characters walk and replan, and the    *)
(* 25 candidates of a selection are spread over angles, radii and noise:   *)
(* a scattered draw, a ring of candidates 135 units out (equal scores on   *)
(* the upper half), and a draw on the four diagonals.                      *)
(***************************************************************************)
MaxSelectNow == 2520

SelectDraws ==
    { [i \in 1..attempts |->
          Candidate((i * 37) % 360, i % 2 = 0, (i * 131) % 1000, (i * 53) % 200)],
      [i \in 1..attempts |-> Candidate((i * 15) % 360, FALSE, 0, 0)],
      [i \in 1..attempts |->
          Candidate(45 + 90 * (i % 4), TRUE, (i * 40) % 1000, (i * 10) % 200)] }

SelectRnds == {r \in Rnds({{}}, SelectDraws) : r.u = 0 /\ r.sp.rot = 0}

NextSelect ==
    \E rnd \in SelectRnds : Frame(FrameGap, rnd, MaxSelectNow)

SpecSelect == InitRunning /\ [][NextSelect]_vars

(***************************************************************************)
(* Putting a character down: the user picks the first character up and     *)
(* the pointer creeps, Nudge to the right per move, so that one move ends  *)
(* in a gentle drop and two moves in a (weak) throw; the formation buttons *)
(* are at hand.                                                            *)
(***************************************************************************)
MaxDropNow == 1260
DropActUntil == 84
Nudge == 200

Creep ==
    IF draggedChar = NoChar THEN {}
    ELSE { [x |-> chars[draggedChar].x + Nudge, z |-> chars[draggedChar].z] }

NextDrop ==
    \/ \E rnd \in UIRnds : Frame(FrameGap, rnd, MaxDropNow)
    \/ \E o \in UnderMouse : now = 0 /\ draggedChar = NoChar /\ handleMouseDown(o)
    \/ \E p \in Creep : now <= DropActUntil /\ handleDragMove(p)
    \/ now <= DropActUntil /\ handleMouseUp
    \/ \E k \in 1..Len(clusters) : now <= DropActUntil /\ handleClusterSelect(k, 0)
    \/ now <= DropActUntil /\ CancelFormation(0)

SpecDrop == InitRunning /\ [][NextDrop]_vars

(***************************************************************************)
(* Formation mode: n players of cluster c1 and one player of c2 walk; the  *)
(* user selects a cluster, and deselects or cancels at once or once the    *)
(* outsiders have had the time to run off.  The player of c2 stands where  *)
(* its run to the exit (600, 0) ends on the exit itself after RunTicks     *)
(* steps: 25 * baseMoveSpeed per second along x, and that plus             *)
(* 10 * baseMoveSpeed per second along z.                                  *)
(***************************************************************************)
MaxMembers == 5
RunTicks == 97

FormNames == <<"a", "b", "c", "d", "e", "f", "g", "h">>
Outsider == "z"

MaxFormNow == (RunTicks + 20) * FrameGap
CancelFrom == (RunTicks + 2) * FrameGap

FirstSpawn == CHOOSE sp \in Spawns : sp.rot = 0

MemberPlace(i) == [FirstSpawn EXCEPT !.x = (40 * i - 120) * Unit, !.z = (30 * i - 100) * Unit]

OutsiderPlace ==
    [FirstSpawn EXCEPT !.x = offscreenDistance - RunTicks * PerTick(25 * baseMoveSpeed),
                       !.z = RunTicks * (PerTick(25 * baseMoveSpeed)
                                         + PerTick(10 * baseMoveSpeed))]

FormRoster(n) == <<Server("c1", SubSeq(FormNames, 1, n)), Server("c2", <<Outsider>>)>>

InitFormation ==
    /\ \E n \in 1..MaxMembers :
          /\ chars = [i \in 1..(n + 1) |->
                         IF i <= n THEN characterData(FormNames[i], "c1", MemberPlace(i))
                         ELSE characterData(Outsider, "c2", OutsiderPlace)]
          /\ registry = [i \in 1..(n + 1) |-> i]
          /\ lastSync = [NoSync EXCEPT !.call = 1,
                                       !.data = FormRoster(n),
                                       !.onlinePlayers = fetchOnlinePlayers(TRUE, FormRoster(n)),
                                       !.toAdd = fetchOnlinePlayers(TRUE, FormRoster(n)),
                                       !.added = Append(SubSeq(FormNames, 1, n), Outsider)]
          /\ prevRoster = fetchOnlinePlayers(TRUE, FormRoster(n))
          /\ clusters = <<SubSeq(FormNames, 1, n), <<Outsider>>>>
    /\ syncs = << >>
    /\ syncCalls = 1
    /\ intervalOn = TRUE
    /\ loadFailed = FALSE
    /\ now = 0
    /\ started = TRUE
    /\ lastFrameTime = NaN
    /\ timeRef = DT
    /\ lastStepAt = 0
    /\ stepLog = [NoStep EXCEPT !.ran = TRUE, !.advanced = DT]
    /\ formationMode = FALSE
    /\ selectedCluster = NoChar
    /\ draggedChar = NoChar
    /\ hoveredChar = NoChar
    /\ isDragging = FALSE
    /\ dragStartTime = 0
    /\ lastDragPos = [x |-> 0, z |-> 0]
    /\ lastDragTime = 0
    /\ dragVelocity = [x |-> 0, z |-> 0]
    /\ lastEvent = "syncCharacters"

FormRnds == {r \in SelectRnds : r.cands[1] = Candidate(37, FALSE, 131, 53)}

ButtonTime == now \in {0, CancelFrom}

NextForm ==
    \/ \E rnd \in FormRnds : Frame(FrameGap, rnd, MaxFormNow)
    \/ \E k \in 1..Len(clusters), u \in {0, 1} : ButtonTime /\ handleClusterSelect(k, u)
    \/ ButtonTime /\ CancelFormation(0)

SpecForm == InitFormation /\ [][NextForm]_vars

(***************************************************************************)
(* Steering near the edge: a walks outwards along the x axis to a target   *)
(* inside the bounds, and b has come to rest beside a's path.              *)
(***************************************************************************)
MaxSteerNow == 5040

\* where a starts, in units along the x axis
SteerStarts == {395, 400, 405}

Walker(username, x, z, targetX, targetZ) ==
    [characterData(username, "c1",
                   [FirstSpawn EXCEPT !.x = x, !.z = z, !.targetX = targetX, !.targetZ = targetZ,
                                      !.changeTargetTime = 5 * Sec])
        EXCEPT !.animationState = "walk", !.waveDuration = Undef]

InitSteer ==
    /\ \E x \in SteerStarts :
          chars = <<Walker("a", x * Unit, 0, 445 * Unit, 0),
                    Walker("b", 430 * Unit, -30 * Unit, 430 * Unit, -30 * Unit)>>
    /\ registry = <<1, 2>>
    /\ syncs = << >>
    /\ syncCalls = 1
    /\ intervalOn = TRUE
    /\ lastSync = [NoSync EXCEPT !.call = 1,
                                 !.data = FirstRoster,
                                 !.onlinePlayers = fetchOnlinePlayers(TRUE, FirstRoster),
                                 !.toAdd = fetchOnlinePlayers(TRUE, FirstRoster),
                                 !.added = <<"a", "b">>]
    /\ prevRoster = fetchOnlinePlayers(TRUE, FirstRoster)
    /\ loadFailed = FALSE
    /\ now = 0
    /\ started = TRUE
    /\ lastFrameTime = NaN
    /\ timeRef = DT
    /\ lastStepAt = 0
    /\ stepLog = [NoStep EXCEPT !.ran = TRUE, !.advanced = DT]
    /\ formationMode = FALSE
    /\ selectedCluster = NoChar
    /\ clusters = <<<<"a", "b">>>>
    /\ draggedChar = NoChar
    /\ hoveredChar = NoChar
    /\ isDragging = FALSE
    /\ dragStartTime = 0
    /\ lastDragPos = [x |-> 0, z |-> 0]
    /\ lastDragTime = 0
    /\ dragVelocity = [x |-> 0, z |-> 0]
    /\ lastEvent = "syncCharacters"

NextSteer ==
    \E rnd \in FormRnds : Frame(FrameGap, rnd, MaxSteerNow)

SpecSteer == InitSteer /\ [][NextSteer]_vars

(***************************************************************************)
(* After a death: a was flown over while walking and has all but faded     *)
(* out, b walks on.  a respawns, waves and walks again.                    *)
(***************************************************************************)
MaxRespawnNow == 6300

\* the ticks the death of a still takes
DeathLeft == {1, 2, 3}

InitRespawn ==
    /\ \E k \in DeathLeft :
          chars = <<[KilledInFlight(Walker("a", -200 * Unit, 100 * Unit, 0, 0))
                        EXCEPT !.deathTimer = k * DT, !.hitTimer = k * DT],
                    Walker("b", 0, -150 * Unit, 150 * Unit, -100 * Unit)>>
    /\ registry = <<1, 2>>
    /\ syncs = << >>
    /\ syncCalls = 1
    /\ intervalOn = TRUE
    /\ lastSync = [NoSync EXCEPT !.call = 1,
                                 !.data = FirstRoster,
                                 !.onlinePlayers = fetchOnlinePlayers(TRUE, FirstRoster),
                                 !.toAdd = fetchOnlinePlayers(TRUE, FirstRoster),
                                 !.added = <<"a", "b">>]
    /\ prevRoster = fetchOnlinePlayers(TRUE, FirstRoster)
    /\ loadFailed = FALSE
    /\ now = 0
    /\ started = TRUE
    /\ lastFrameTime = NaN
    /\ timeRef = DT
    /\ lastStepAt = 0
    /\ stepLog = [NoStep EXCEPT !.ran = TRUE, !.advanced = DT]
    /\ formationMode = FALSE
    /\ selectedCluster = NoChar
    /\ clusters = <<<<"a", "b">>>>
    /\ draggedChar = NoChar
    /\ hoveredChar = NoChar
    /\ isDragging = FALSE
    /\ dragStartTime = 0
    /\ lastDragPos = [x |-> 0, z |-> 0]
    /\ lastDragTime = 0
    /\ dragVelocity = [x |-> 0, z |-> 0]
    /\ lastEvent = "syncCharacters"

NextRespawn ==
    \E rnd \in FormRnds : Frame(FrameGap, rnd, MaxRespawnNow)

SpecRespawn == InitRespawn /\ [][NextRespawn]_vars

(***************************************************************************)
(* A walk with nobody around: a is about to arrive at its target, holds    *)
(* there, and walks on to the next target; b walks far away.               *)
(***************************************************************************)
MaxStrollNow == 5460

\* how far a starts from its target, in units along the x axis
StrollStarts == {11, 12, 13}

InitStroll ==
    /\ \E d \in StrollStarts :
          chars = <<Walker("a", (50 - d) * Unit, 20 * Unit, 50 * Unit, 20 * Unit),
                    Walker("b", -300 * Unit, -300 * Unit, -200 * Unit, -300 * Unit)>>
    /\ registry = <<1, 2>>
    /\ syncs = << >>
    /\ syncCalls = 1
    /\ intervalOn = TRUE
    /\ lastSync = [NoSync EXCEPT !.call = 1,
                                 !.data = FirstRoster,
                                 !.onlinePlayers = fetchOnlinePlayers(TRUE, FirstRoster),
                                 !.toAdd = fetchOnlinePlayers(TRUE, FirstRoster),
                                 !.added = <<"a", "b">>]
    /\ prevRoster = fetchOnlinePlayers(TRUE, FirstRoster)
    /\ loadFailed = FALSE
    /\ now = 0
    /\ started = TRUE
    /\ lastFrameTime = NaN
    /\ timeRef = DT
    /\ lastStepAt = 0
    /\ stepLog = [NoStep EXCEPT !.ran = TRUE, !.advanced = DT]
    /\ formationMode = FALSE
    /\ selectedCluster = NoChar
    /\ clusters = <<<<"a", "b">>>>
    /\ draggedChar = NoChar
    /\ hoveredChar = NoChar
    /\ isDragging = FALSE
    /\ dragStartTime = 0
    /\ lastDragPos = [x |-> 0, z |-> 0]
    /\ lastDragTime = 0
    /\ dragVelocity = [x |-> 0, z |-> 0]
    /\ lastEvent = "syncCharacters"

NextStroll ==
    \E rnd \in FormRnds : Frame(FrameGap, rnd, MaxStrollNow)

SpecStroll == InitStroll /\ [][NextStroll]_vars

(***************************************************************************)
(* Agents on one spot: a, b and c stand at exactly the same position (one  *)
(* dropped onto the other): all walking to different targets, or a and b   *)
(* holding, or a seeking b, or b running away from a, or a with its target *)
(* where it stands.  The user may switch a formation on at the start.      *)
(***************************************************************************)
MaxSameNow == 2520

SameModes == {"walk", "stand", "seek", "flee", "arrived"}

SameRoster == <<Server("c1", <<"a">>), Server("c2", <<"b", "c">>)>>

\* a walker at the common spot
OnSpot(username, clusterId, targetX, targetZ) ==
    [Walker(username, 60 * Unit, 40 * Unit, targetX, targetZ) EXCEPT !.clusterId = clusterId]

\* the walker has arrived and holds for 2 s
Holding(c) ==
    [c EXCEPT !.animationState = "idle", !.idleDuration = 2 * Sec,
              !.targetX = c.x, !.targetZ = c.z]

SameStart(mode) ==
    LET a == OnSpot("a", "c1", 200 * Unit, 0)
        b == OnSpot("b", "c2", -100 * Unit, 150 * Unit)
        c == OnSpot("c", "c2", 0, -200 * Unit)
    IN  IF mode = "stand"
        THEN <<Holding(a), Holding(b), c>>
        ELSE IF mode = "seek"
        THEN <<[a EXCEPT !.hitTargetPlayer = 2, !.targetX = b.x, !.targetZ = b.z,
                         !.changeTargetTime = 999 * Sec, !.hitDecisionTimer = 5 * Sec],
               Holding(b), c>>
        ELSE IF mode = "flee"
        THEN <<Holding(a),
               [b EXCEPT !.animationState = "run", !.runAwayTimer = 6 * Sec,
                         !.runAwayTarget = Vec(b.x, 0, b.z), !.runAwayFrom = 1,
                         !.shouldRunAway = TRUE],
               c>>
        ELSE IF mode = "arrived"
        THEN <<[a EXCEPT !.targetX = a.x, !.targetZ = a.z], b, c>>
        ELSE <<a, b, c>>

InitSame ==
    /\ \E mode \in SameModes : chars = SameStart(mode)
    /\ registry = <<1, 2, 3>>
    /\ syncs = << >>
    /\ syncCalls = 1
    /\ intervalOn = TRUE
    /\ lastSync = [NoSync EXCEPT !.call = 1,
                                 !.data = SameRoster,
                                 !.onlinePlayers = fetchOnlinePlayers(TRUE, SameRoster),
                                 !.toAdd = fetchOnlinePlayers(TRUE, SameRoster),
                                 !.added = <<"a", "b", "c">>]
    /\ prevRoster = fetchOnlinePlayers(TRUE, SameRoster)
    /\ loadFailed = FALSE
    /\ now = 0
    /\ started = TRUE
    /\ lastFrameTime = NaN
    /\ timeRef = DT
    /\ lastStepAt = 0
    /\ stepLog = [NoStep EXCEPT !.ran = TRUE, !.advanced = DT]
    /\ formationMode = FALSE
    /\ selectedCluster = NoChar
    /\ clusters = <<<<"a">>, <<"b", "c">>>>
    /\ draggedChar = NoChar
    /\ hoveredChar = NoChar
    /\ isDragging = FALSE
    /\ dragStartTime = 0
    /\ lastDragPos = [x |-> 0, z |-> 0]
    /\ lastDragTime = 0
    /\ dragVelocity = [x |-> 0, z |-> 0]
    /\ lastEvent = "syncCharacters"

NextSame ==
    \/ \E rnd \in FormRnds : Frame(FrameGap, rnd, MaxSameNow)
    \/ \E k \in 1..Len(clusters) : now = 0 /\ ~formationMode /\ handleClusterSelect(k, 0)

SpecSame == InitSame /\ [][NextSame]_vars

(***************************************************************************)
(* A flight from throw to landing: the user picks the first character up   *)
(* at the start and throws it, weakly (the pointer creeps) or over the     *)
(* screen edge, and may select a cluster while a character is in the air.  *)
(* animate ends by asking the driver for the next frame, so frames keep    *)
(* coming: the step that moves the clock on by one frame is weakly fair.   *)
(***************************************************************************)
MaxFlightNow == 2520
FlightActUntil == 84

SomeoneThrown == \E o \in Range(registry) : chars[o].isThrown

NextFlight ==
    \/ \E rnd \in UIRnds : Frame(FrameGap, rnd, MaxFlightNow)
    \/ \E o \in UnderMouse : now = 0 /\ draggedChar = NoChar /\ handleMouseDown(o)
    \/ \E p \in Creep \cup ThrowPoints : now <= FlightActUntil /\ handleDragMove(p)
    \/ now <= FlightActUntil /\ handleMouseUp
    \/ \E k \in 1..Len(clusters) :
          SomeoneThrown /\ ~formationMode /\ handleClusterSelect(k, 0)

\* the next frame of the driver: a frame is due whenever the program runs
FrameComes == started /\ now + FrameGap <= MaxFlightNow /\ now' = now + FrameGap

SpecFlight == InitRunning /\ [][NextFlight]_vars /\ WF_now(FrameComes)

(***************************************************************************)
(* A hit by another agent and a hit by the user: a seeks b and is a step   *)
(* or two in front of it, b holds; the user clicks on a character at some  *)
(* time, before or after a's hit lands.                                    *)
(***************************************************************************)
MaxHitNow == 1680
ClickUntil == 420

\* how far in front of b the seeker a starts, in tenths of a unit
HitStarts == {10, 15, 20}

InitHit ==
    /\ \E d \in HitStarts :
          chars = <<[Walker("a", 60 * Unit - d * (Unit \div 10), 40 * Unit, 60 * Unit, 40 * Unit)
                        EXCEPT !.hitTargetPlayer = 2,
                               !.changeTargetTime = 999 * Sec,
                               !.hitDecisionTimer = 5 * Sec,
                               !.rotY = 90],
                    Holding(Walker("b", 60 * Unit, 40 * Unit, 60 * Unit, 40 * Unit))>>
    /\ registry = <<1, 2>>
    /\ syncs = << >>
    /\ syncCalls = 1
    /\ intervalOn = TRUE
    /\ lastSync = [NoSync EXCEPT !.call = 1,
                                 !.data = FirstRoster,
                                 !.onlinePlayers = fetchOnlinePlayers(TRUE, FirstRoster),
                                 !.toAdd = fetchOnlinePlayers(TRUE, FirstRoster),
                                 !.added = <<"a", "b">>]
    /\ prevRoster = fetchOnlinePlayers(TRUE, FirstRoster)
    /\ loadFailed = FALSE
    /\ now = 0
    /\ started = TRUE
    /\ lastFrameTime = NaN
    /\ timeRef = DT
    /\ lastStepAt = 0
    /\ stepLog = [NoStep EXCEPT !.ran = TRUE, !.advanced = DT]
    /\ formationMode = FALSE
    /\ selectedCluster = NoChar
    /\ clusters = <<<<"a", "b">>>>
    /\ draggedChar = NoChar
    /\ hoveredChar = NoChar
    /\ isDragging = FALSE
    /\ dragStartTime = 0
    /\ lastDragPos = [x |-> 0, z |-> 0]
    /\ lastDragTime = 0
    /\ dragVelocity = [x |-> 0, z |-> 0]
    /\ lastEvent = "syncCharacters"

NextHit ==
    \/ \E rnd \in FormRnds : Frame(FrameGap, rnd, MaxHitNow)
    \/ \E o \in Range(registry) : now <= ClickUntil /\ handleClick(o)

SpecHit == InitHit /\ [][NextHit]_vars

(***************************************************************************)
(* Standing at the edge: a stands 455 units out, beyond the 450 of the     *)
(* edge push, idle 6 units past its target or waving (as after a click's   *)
(* knockback has settled); b walks past it, closer than the avoidance      *)
(* radius.                                                                 *)
(***************************************************************************)
MaxStandNow == 2520

StandModes == {"idle", "wave"}

\* where b starts, in units along the z axis
StandStarts == {-40, -20}

StandStart(mode, d) ==
    LET a == Walker("a", 455 * Unit, 0, 449 * Unit, 0)
        b == Walker("b", 440 * Unit, d * Unit, 440 * Unit, 100 * Unit)
    IN  IF mode = "idle"
        THEN <<[a EXCEPT !.animationState = "idle", !.idleDuration = 2 * Sec], b>>
        ELSE <<[a EXCEPT !.animationState = "wave", !.waveDuration = 4 * Sec], b>>

InitStand ==
    /\ \E mode \in StandModes, d \in StandStarts : chars = StandStart(mode, d)
    /\ registry = <<1, 2>>
    /\ syncs = << >>
    /\ syncCalls = 1
    /\ intervalOn = TRUE
    /\ lastSync = [NoSync EXCEPT !.call = 1,
                                 !.data = FirstRoster,
                                 !.onlinePlayers = fetchOnlinePlayers(TRUE, FirstRoster),
                                 !.toAdd = fetchOnlinePlayers(TRUE, FirstRoster),
                                 !.added = <<"a", "b">>]
    /\ prevRoster = fetchOnlinePlayers(TRUE, FirstRoster)
    /\ loadFailed = FALSE
    /\ now = 0
    /\ started = TRUE
    /\ lastFrameTime = NaN
    /\ timeRef = DT
    /\ lastStepAt = 0
    /\ stepLog = [NoStep EXCEPT !.ran = TRUE, !.advanced = DT]
    /\ formationMode = FALSE
    /\ selectedCluster = NoChar
    /\ clusters = <<<<"a", "b">>>>
    /\ draggedChar = NoChar
    /\ hoveredChar = NoChar
    /\ isDragging = FALSE
    /\ dragStartTime = 0
    /\ lastDragPos = [x |-> 0, z |-> 0]
    /\ lastDragTime = 0
    /\ dragVelocity = [x |-> 0, z |-> 0]
    /\ lastEvent = "syncCharacters"

NextStand ==
    \E rnd \in FormRnds : Frame(FrameGap, rnd, MaxStandNow)

SpecStand == InitStand /\ [][NextStand]_vars

(***************************************************************************)
(* The hit decision among several: a is two ticks from its 5 s roll, and   *)
(* b, c, d are around it, nearer than 50, between 50 and 200 or beyond,    *)
(* walking, holding or running away; the other three roll at 5 s.  Any of  *)
(* the rolls may succeed.                                                  *)
(***************************************************************************)
MaxRollNow == 5460

RollLayouts == {"near", "runner", "nobody", "tie"}

\* a character that runs away from b
Runner(c) ==
    [c EXCEPT !.animationState = "run", !.runAwayTimer = 6 * Sec,
              !.runAwayTarget = Vec(c.targetX, 0, c.targetZ), !.runAwayFrom = 2]

RollStart(layout) ==
    LET a == [Walker("a", 0, 0, 0, -300 * Unit) EXCEPT !.hitDecisionTimer = 2 * DT]
    IN  IF layout = "near"
        THEN <<a, Walker("b", 60 * Unit, 0, 300 * Unit, 0),
                  Walker("c", 0, 80 * Unit, 0, 300 * Unit),
                  Walker("d", 40 * Unit, 0, 300 * Unit, 100 * Unit)>>
        ELSE IF layout = "runner"
        THEN <<a, Walker("b", 0, 120 * Unit, 0, 300 * Unit),
                  Runner(Walker("c", 70 * Unit, 0, 300 * Unit, 0)),
                  Holding(Walker("d", -90 * Unit, 0, -90 * Unit, 0))>>
        ELSE IF layout = "nobody"
        THEN <<a, Walker("b", 30 * Unit, 0, 300 * Unit, 0),
                  Walker("c", 0, 230 * Unit, 0, 300 * Unit),
                  Runner(Walker("d", -100 * Unit, 0, -300 * Unit, 0))>>
        ELSE <<a, Walker("b", 60 * Unit, 0, 300 * Unit, 0),
                  Walker("c", 0, 60 * Unit, 0, 300 * Unit),
                  Walker("d", -60 * Unit, 0, -300 * Unit, 0)>>

RollRoster == <<Server("c1", <<"a", "b", "c", "d">>)>>

InitRoll ==
    /\ \E layout \in RollLayouts : chars = RollStart(layout)
    /\ registry = <<1, 2, 3, 4>>
    /\ syncs = << >>
    /\ syncCalls = 1
    /\ intervalOn = TRUE
    /\ lastSync = [NoSync EXCEPT !.call = 1,
                                 !.data = RollRoster,
                                 !.onlinePlayers = fetchOnlinePlayers(TRUE, RollRoster),
                                 !.toAdd = fetchOnlinePlayers(TRUE, RollRoster),
                                 !.added = <<"a", "b", "c", "d">>]
    /\ prevRoster = fetchOnlinePlayers(TRUE, RollRoster)
    /\ loadFailed = FALSE
    /\ now = 0
    /\ started = TRUE
    /\ lastFrameTime = NaN
    /\ timeRef = DT
    /\ lastStepAt = 0
    /\ stepLog = [NoStep EXCEPT !.ran = TRUE, !.advanced = DT]
    /\ formationMode = FALSE
    /\ selectedCluster = NoChar
    /\ clusters = <<<<"a", "b", "c", "d">>>>
    /\ draggedChar = NoChar
    /\ hoveredChar = NoChar
    /\ isDragging = FALSE
    /\ dragStartTime = 0
    /\ lastDragPos = [x |-> 0, z |-> 0]
    /\ lastDragTime = 0
    /\ dragVelocity = [x |-> 0, z |-> 0]
    /\ lastEvent = "syncCharacters"

RollRnds ==
    {r \in Rnds({{}, {1}, {2, 3, 4}}, {[i \in 1..attempts |-> Candidate(0, TRUE, 999, 0)]}) :
        r.u = 0 /\ r.sp.rot = 0}

NextRoll ==
    \E rnd \in RollRnds : Frame(FrameGap, rnd, MaxRollNow)

SpecRoll == InitRoll /\ [][NextRoll]_vars

(***************************************************************************)
(* The pointer over the characters: it moves over a character or off them, *)
(* presses, drags, releases and clicks, and frames pass.  A press or a     *)
(* click finds the character that the last pointer move has found; after a *)
(* release or a click the program holds no such character, and any may be  *)
(* found.  While the button is down the pointer is on the character it     *)
(* holds.                                                                  *)
(***************************************************************************)
MaxHoverNow == 84

FoundByPointer(o) == hoveredChar \in {NoChar, o}

NextHover ==
    \/ \E rnd \in UIRnds : Frame(FrameGap, rnd, MaxHoverNow)
    \/ \E h \in Range(registry) \cup {NoChar} : draggedChar \in {NoChar, h} /\ handleMouseMove(h)
    \/ \E o \in Range(registry) :
          now = 0 /\ FoundByPointer(o) /\ draggedChar = NoChar /\ handleMouseDown(o)
    \/ \E p \in ThrowPoints : handleDragMove(p)
    \/ handleMouseUp
    \/ \E o \in Range(registry) : now = 0 /\ FoundByPointer(o) /\ handleClick(o)

SpecHover == InitRunning /\ [][NextHover]_vars

(***************************************************************************)
(* The whole program: every handler, under the bounds of the scenarios.    *)
(***************************************************************************)
Next ==
    \/ NextSync \/ NextClock \/ NextUI \/ NextWalk \/ NextSeek
    \/ NextThrow \/ NextDying \/ NextKnock \/ NextSelect \/ NextDrop
    \/ NextForm \/ NextSteer \/ NextRespawn \/ NextStroll \/ NextSame
    \/ NextFlight \/ NextHit \/ NextStand \/ NextRoll \/ NextHover

Spec == Init /\ [][Next]_vars

(***************************************************************************)
(* C1: the registry never holds two agents with the same id (username),    *)
(* whatever the interleaving of sync calls and skin loads, and whatever    *)
(* the roster (a roster may list the same id twice).                       *)
(***************************************************************************)
C1_UniqueIds ==
    \A i, j \in 1..Len(registry) :
        i # j => chars[registry[i]].username # chars[registry[j]].username

(***************************************************************************)
(* C2: a sync that found the ids A in the registry and was given roster B  *)
(* has, when it is done, added the ids of B - A, removed the ids of A - B, *)
(* left every agent whose id is in both as it was apart from clusterId,    *)
(* and given every such agent a clusterId that B lists for its id.  (Syncs *)
(* during which a skin load failed are left out of the statement.)         *)
(***************************************************************************)
RosterIds(onlinePlayers) == {onlinePlayers[i].username : i \in 1..Len(onlinePlayers)}

KeptAsBefore(o, log) ==
    o \in log.beforeReg =>
        [chars[o] EXCEPT !.clusterId = ""] = [log.beforeChars[o] EXCEPT !.clusterId = ""]

C2_DiffCorrect ==
    (lastSync.call > 0 /\ lastSync.clean) =>
        LET A == lastSync.before
            B == RosterIds(lastSync.onlinePlayers)
        IN  /\ Range(lastSync.added) = B \ A
            /\ lastSync.removed = A \ B
            /\ \A i \in 1..Len(registry) :
                   LET c == chars[registry[i]]
                   IN  c.username \in A \cap B =>
                          /\ KeptAsBefore(registry[i], lastSync)
                          /\ \E k \in 1..Len(lastSync.onlinePlayers) :
                                 /\ lastSync.onlinePlayers[k].username = c.username
                                 /\ lastSync.onlinePlayers[k].clusterId = c.clusterId

(***************************************************************************)
(* C3: a sync call that is given the same roster as the call before it     *)
(* adds no id and removes no id and leaves every agent as it was.  (Calls  *)
(* made after a skin load has failed are left out of the statement.)       *)
(***************************************************************************)
C3_Idempotent ==
    (lastSync.call > 0 /\ lastSync.same /\ lastSync.clean) =>
        /\ lastSync.added = << >>
        /\ lastSync.removed = {}
        /\ \A o \in Range(registry) \cap lastSync.beforeReg :
               chars[o] = lastSync.beforeChars[o]

(***************************************************************************)
(* C4: simulation steps are throttled to 24 Hz: a frame that arrives less  *)
(* than 1/24 s (125/3 ms) after the last executed step performs no step,   *)
(* and every executed step advances simulated time by exactly 1/24 s.      *)
(***************************************************************************)
C4_Throttled ==
    stepLog.ran =>
        /\ stepLog.sincePrev # NaN => 3 * stepLog.sincePrev >= frameInterval
        /\ stepLog.advanced = DT

(***************************************************************************)
(* C5: at the end of every tick and after every pointer event no agent has *)
(* both a throw velocity and a knockback velocity: not after a pointer     *)
(* down and a quick click on the same agent, and not when the hit of an    *)
(* agent lands on an agent that is being thrown.                           *)
(***************************************************************************)
PointerEvents == {"handleMouseDown", "handleDragMove", "handleMouseUp", "handleClick"}

C5_ThrowXorKnockback ==
    lastEvent \in PointerEvents \cup {"tick"} =>
        \A o \in Range(registry) :
            ~(chars[o].throwVelocity.set /\ chars[o].knockbackVelocity.set)

(***************************************************************************)
(* C6: at the end of every tick every agent in a grounded state (Walking,  *)
(* Idle, Seeking, Hitting, Waving, RunningAway, FormationMarching,         *)
(* FormationIdle) is at height 0; in particular an agent whose animation   *)
(* state has become RUN after the hit of another agent, and an agent that  *)
(* is marched in formation, is not still in the air from a knockback, a    *)
(* drag or a throw.                                                        *)
(***************************************************************************)
\* none of the states that override the grounded ones
GroundedState(o) ==
    LET c == chars[o]
    IN  /\ ~c.isDying
        /\ ~(c.isThrown /\ c.throwVelocity.set)
        /\ ~c.knockbackVelocity.set
        /\ draggedChar # o
        /\ ~c.isFloating
        /\ c.dropVelocity = Undef
        /\ ~c.shouldDespawn

RunAfterHit(o) == chars[o].animationState = "run" /\ chars[o].runAwayFrom # NoChar

\* a member of the formation that the user is not holding
Marched(o) ==
    /\ chars[o].formationMode
    /\ ~chars[o].shouldDespawn
    /\ ~chars[o].isDying
    /\ draggedChar # o

C6_Grounded ==
    lastEvent = "tick" =>
        \A o \in Range(registry) :
            (GroundedState(o) \/ RunAfterHit(o) \/ Marched(o)) => chars[o].gy = 0

(***************************************************************************)
(* C7: at every tick every agent that is neither dying nor despawning has  *)
(* its target within maxTargetDistance (450) of the origin, whichever      *)
(* step produced the target.                                               *)
(***************************************************************************)
TargetInBounds(c) == Hypot(c.targetX, c.targetZ) <= maxTargetDistance

C7_TargetInBounds ==
    lastEvent = "tick" =>
        \A o \in Range(registry) :
            (~chars[o].isDying /\ ~chars[o].shouldDespawn) => TargetInBounds(chars[o])

(***************************************************************************)
(* C8: once the victim of a seeking agent has left the registry, the       *)
(* seeker has dropped its hit target by the end of the next tick: after a  *)
(* tick no agent of the registry pursues an agent that is not in it.       *)
(***************************************************************************)
Seeking(o) == chars[o].hitTargetPlayer # NoChar

C8_SeekerDropsRemovedVictim ==
    lastEvent = "tick" =>
        \A o \in Range(registry) :
            Seeking(o) => chars[o].hitTargetPlayer \in Range(registry)

(***************************************************************************)
(* C9: once the aggressor of an agent that is running away has left the    *)
(* registry, the next tick stops the flight (timer, target and aggressor   *)
(* cleared, back to walking): after a tick no agent of the registry runs   *)
(* from an agent that is not in it.                                        *)
(***************************************************************************)
RunningAway(o) ==
    /\ chars[o].animationState = "run"
    /\ chars[o].runAwayTimer # Undef
    /\ chars[o].runAwayFrom # NoChar

C9_FleeingDropsRemovedAggressor ==
    lastEvent = "tick" =>
        \A o \in Range(registry) :
            RunningAway(o) => chars[o].runAwayFrom \in Range(registry)

(***************************************************************************)
(* C10: an exception raised while one agent is updated does not abort the  *)
(* tick: every other agent of the registry is updated in that tick.        *)
(***************************************************************************)
NotUpdated == Range(registry) \ stepLog.updated

C10_TickNotAborted ==
    lastEvent = "tick" =>
        Cardinality(NotUpdated) <= (IF stepLog.threw THEN 1 ELSE 0)

(***************************************************************************)
(* C11: when every one of the 25 candidates of a selection is rejected by  *)
(* the minimum-distance filter, the agent gets a fallback target and the   *)
(* tick completes normally for it.  stepLog.threw records the other        *)
(* outcome: a selection without a surviving candidate ended the update of  *)
(* its agent in an uncaught TypeError.                                     *)
(***************************************************************************)
C11_FallbackTarget ==
    lastEvent = "tick" => ~stepLog.threw

(***************************************************************************)
(* C13: updates follow the precedence Dying > Thrown > KnockedBack >       *)
(* Dragged > Formation > ...: in a tick in which formation mode is active, *)
(* an agent that is thrown or knocked back (and not dying) is integrated   *)
(* by its physics override, not moved by the formation logic.  The thrown  *)
(* physics changes dropVelocity, lands the agent or starts its death; the  *)
(* knockback physics changes knockbackVelocity.                            *)
(***************************************************************************)
Airborne(c) ==
    /\ ~c.isDying
    /\ (c.isThrown /\ c.throwVelocity.set) \/ c.knockbackVelocity.set

PhysicsRan(c, d) ==
    IF c.isThrown /\ c.throwVelocity.set
    THEN d.isDying \/ ~d.isThrown \/ d.dropVelocity # c.dropVelocity
    ELSE d.knockbackVelocity # c.knockbackVelocity

C13_PhysicsBeforeFormation ==
    [][(lastEvent' = "tick" /\ timeRef' # timeRef /\ formationMode) =>
          \A o \in Range(registry) :
              (Airborne(chars[o]) /\ o \in stepLog'.updated) =>
                  PhysicsRan(chars[o], chars'[o])]_vars

(***************************************************************************)
(* C19: an agent's animation clock (animProgress) never decreases and is   *)
(* never set back to 0 by a tick, a pointer event or a formation command,  *)
(* except by the tick in which the agent respawns.                         *)
(***************************************************************************)
RespawnedNow(o) == chars[o].isDying /\ ~chars'[o].isDying

C19_AnimClockMonotone ==
    [][\A o \in DOMAIN chars :
          RespawnedNow(o) \/ chars'[o].animProgress >= chars[o].animProgress]_vars

(***************************************************************************)
(* C20: from the first drag move until the release, at the end of every    *)
(* tick the dragged agent is in animation state Idle, the tick has not     *)
(* moved it, and its height is the float height (3 units).                 *)
(***************************************************************************)
BeingDragged == draggedChar # NoChar /\ isDragging

C20_DraggedHeld ==
    [][(lastEvent' = "tick" /\ timeRef' # timeRef /\ BeingDragged
            /\ draggedChar \in stepLog'.updated) =>
          /\ chars'[draggedChar].animationState = "idle"
          /\ chars'[draggedChar].x = chars[draggedChar].x
          /\ chars'[draggedChar].z = chars[draggedChar].z
          /\ chars'[draggedChar].gy = floatHeight]_vars

(***************************************************************************)
(* C15: a thrown agent that has crossed distance 500 from the origin       *)
(* enters Dying exactly once.  Its update starts the death sequence (timer *)
(* 1.2 s); the timer is never started again while the agent is dying; the  *)
(* agent that respawns is neither thrown nor beyond the edge; and an agent *)
(* becomes Dying only in a tick, as a thrown agent beyond the edge or as   *)
(* the victim of a collision with a thrown agent, and Thrown only by the   *)
(* release of a drag.                                                      *)
(***************************************************************************)
InFlight(c) == c.isThrown /\ c.throwVelocity.set /\ ~c.isDying

BeyondEdge(c) == Hypot(c.x, c.z) > screenEdgeDistance

FlownOver(o) ==
    \E p \in Range(registry) \ {o} :
        /\ InFlight(chars[p])
        /\ Hypot(chars[p].x - chars[o].x, chars[p].z - chars[o].z) < horizontalCollisionRadius

C17_DyingPositionLocked ==
    [][\A o \in Range(registry) :
          (chars[o].isDying /\ chars'[o].isDying) =>
              /\ chars'[o].x = chars[o].x
              /\ chars'[o].z = chars[o].z
              /\ chars'[o].gx = chars[o].gx
              /\ chars'[o].gz = chars[o].gz]_vars

(***************************************************************************)
(* C18: respawn is a full reset: right after an agent has respawned its    *)
(* throw velocity, knockback velocity, waypoint, idle hold, run-away timer *)
(* and target, hit target and the hit, being-hit and hitting flags are all *)
(* cleared.                                                                *)
(***************************************************************************)
C18_RespawnResetsAll ==
    [][\A o \in Range(registry) :
          RespawnedNow(o) =>
              /\ ~chars'[o].throwVelocity.set
              /\ ~chars'[o].knockbackVelocity.set
              /\ ~chars'[o].waypoint.set
              /\ chars'[o].idleDuration = Undef
              /\ chars'[o].runAwayTimer = Undef
              /\ ~chars'[o].runAwayTarget.set
              /\ chars'[o].hitTargetPlayer = NoChar
              /\ ~chars'[o].isHit
              /\ ~chars'[o].isBeingHit
              /\ ~chars'[o].isHitting]_vars

(***************************************************************************)
(* C16: every agent that enters Dying respawns after 1.2 s of ticks, at    *)
(* most 29 ticks later, whatever pointer events, hits or formation changes *)
(* come in between: it starts with a timer of 1.2 s or less, every tick    *)
(* takes one step off the timer, nothing else touches the timer, the tick  *)
(* that brings it to zero leaves the agent waving on the ground, not       *)
(* thrown and not dying, and the agent stays in the registry all the       *)
(* while.                                                                  *)
(***************************************************************************)
TickTaken == lastEvent' = "tick" /\ timeRef' # timeRef

C16_RespawnsInTime ==
    [][\A o \in Range(registry) :
          /\ (~chars[o].isDying /\ chars'[o].isDying) =>
                chars'[o].deathTimer <= (12 * Sec) \div 10
          /\ chars[o].isDying =>
                /\ o \in Range(registry')
                /\ IF ~TickTaken
                   THEN chars'[o].isDying /\ chars'[o].deathTimer = chars[o].deathTimer
                   ELSE IF chars[o].deathTimer - DT > 0
                   THEN chars'[o].isDying /\ chars'[o].deathTimer = chars[o].deathTimer - DT
                   ELSE /\ ~chars'[o].isDying
                        /\ ~chars'[o].isThrown
                        /\ chars'[o].animationState = "wave"
                        /\ chars'[o].gy = 0]_vars

(***************************************************************************)
(* C14: an agent knocked back with knockbackMinDuration = 0.8 s does not   *)
(* leave the knocked-back state (its knockback velocity is not cleared)    *)
(* before 0.8 s of simulated time have passed since the hit, whatever the  *)
(* wall-clock time between the ticks.                                      *)
(***************************************************************************)
C14_KnockbackLasts ==
    [][\A o \in Range(registry) :
          (/\ chars[o].knockbackVelocity.set
           /\ chars[o].knockbackMinDuration = 800
           /\ ~chars'[o].knockbackVelocity.set) =>
              timeRef' - chars[o].knockedAt >= (8 * Sec) \div 10]_vars

C14_KnockbackOver ==
    \E o \in Range(registry) :
        /\ chars[o].knockedAt # Undef
        /\ ~chars[o].knockbackVelocity.set
        /\ chars[o].knockbackMinDuration = Undef
        /\ lastEvent = "tick"

(***************************************************************************)
(* C12: when at least one candidate survives the distance filter, the      *)
(* target chosen by a replan is one of the max(1, floor(20%)) lowest       *)
(* scoring survivors, its score is within 10% of the lowest score, among   *)
(* those candidates it has the largest 0.7 * distance from the agent +     *)
(* 0.3 * distance from the origin, and it is at least minTargetDistance    *)
(* from the agent.  Stated for every agent of the registry and every draw  *)
(* of candidates, in every state the walk reaches.                         *)
(***************************************************************************)
Survivors(o, cands) == SortByKey(Candidates(chars, registry, o, cands))

ChosenWell(o, cands) ==
    LET sorted == Survivors(o, cands)
        sel == SelectTarget(chars, registry, o, cands)
        keep == Max(1, Len(sorted) \div 5)
    IN  Len(sorted) > 0 =>
            /\ ~sel.threw
            /\ \E i \in 1..keep :
                   /\ sorted[i].x = sel.x
                   /\ sorted[i].z = sel.z
                   /\ sorted[i].key * 10 <= sorted[1].key * 11
                   /\ \A j \in 1..keep :
                          sorted[j].key * 10 <= sorted[1].key * 11 =>
                              combinedDistance(chars[o], sorted[j])
                                  <= combinedDistance(chars[o], sorted[i])
            /\ Hypot(sel.x - chars[o].x, sel.z - chars[o].z) >= minTargetDistance

GentlyDropping(c) ==
    /\ c.isFloating
    /\ c.dropVelocity # Undef
    /\ c.dropVelocity < 0
    /\ ~c.isThrown
    /\ ~c.isDying

ReleasedDrag == lastEvent' = "handleMouseUp" /\ isDragging /\ draggedChar # NoChar

C21_ThrowOrGentleDrop ==
    [][/\ ReleasedDrag =>
             LET c == chars[draggedChar]
                 d == chars'[draggedChar]
             IN  IF Hypot(dragVelocity.x, dragVelocity.z) > throwThreshold
                 THEN /\ d.isThrown
                      /\ d.throwVelocity.set
                      /\ d.throwVelocity.x = Scale(dragVelocity.x, 3, 2)
                      /\ d.throwVelocity.z = Scale(dragVelocity.z, 3, 2)
                 ELSE /\ ~d.isThrown
                      /\ d.x = c.x /\ d.z = c.z
                      /\ IF c.gy > 0
                         THEN c.isDying \/ GentlyDropping(d)
                         ELSE d.animationState = "walk"
       /\ \A o \in Range(registry) :
             (TickTaken /\ GentlyDropping(chars[o]) /\ draggedChar # o) =>
                 /\ chars'[o].x = chars[o].x
                 /\ chars'[o].z = chars[o].z
                 /\ chars'[o].gy < chars[o].gy
                 /\ chars'[o].gy >= 0
                 /\ chars'[o].gy = 0 =>
                        (chars'[o].animationState = "walk" /\ ~chars'[o].isFloating)]_vars

(***************************************************************************)
(* C22: while an agent is thrown, every other agent within horizontal      *)
(* distance 8 of it that is neither thrown nor dying enters Dying, once:   *)
(* its death timer is not started again on later ticks; and the thrown     *)
(* agent itself does not die of the collision, only of crossing the edge.  *)
(* The distance is the one at the thrown agent's update: an agent earlier  *)
(* in the registry has already been updated in that tick.                  *)
(***************************************************************************)
\* the place of o in the registry; an agent that has left it is not updated
Index(o) ==
    IF o \in Range(registry) THEN CHOOSE i \in 1..Len(registry) : registry[i] = o
    ELSE Len(registry) + 1

\* o as the update of p finds it
AsFoundBy(p, o) == IF Index(o) < Index(p) THEN chars'[o] ELSE chars[o]

Struck(p, o) ==
    /\ p # o
    /\ InFlight(chars[p])
    /\ ~BeyondEdge(chars[p])
    /\ ~chars[o].isDying
    /\ ~chars[o].isThrown
    /\ Hypot(chars[p].x - AsFoundBy(p, o).x, chars[p].z - AsFoundBy(p, o).z)
           < horizontalCollisionRadius

C22_MidAirCollision ==
    [][\A p \in Range(registry) :
          /\ \A o \in Range(registry) :
                (TickTaken /\ p \in stepLog'.updated /\ Struck(p, o)) => chars'[o].isDying
          /\ (chars[p].isDying /\ chars'[p].isDying) =>
                chars'[p].deathTimer <= chars[p].deathTimer
          /\ (InFlight(chars[p]) /\ chars'[p].isDying) => BeyondEdge(chars[p])]_vars

(***************************************************************************)
(* C23: a seeking agent executes a hit only in a tick in which it is       *)
(* within 4 units of its victim and its facing is within 30 degrees of the *)
(* bearing from itself to the victim; and executing the hit puts the       *)
(* victim into knockback.  The victim is taken where the seeker's update   *)
(* finds it.                                                               *)
(***************************************************************************)
HitExecuted(o) ==
    /\ TickTaken
    /\ chars[o].hitTargetPlayer # NoChar
    /\ ~chars[o].isHitting
    /\ chars'[o].isHitting

\* the direction from a to b as a rotation about the y axis
Bearing(a, b) == Atan2(b.x - a.x, b.z - a.z)

C23_HitCloseAndFacing ==
    [][\A o \in Range(registry) :
          HitExecuted(o) =>
              LET c == chars[o]
                  victim == AsFoundBy(o, c.hitTargetPlayer)
              IN  /\ Hypot(c.x - victim.x, c.z - victim.z) < 4 * Unit
                  /\ RotDiff(Bearing(c, victim), c.rotY) <= 30
                  /\ chars'[c.hitTargetPlayer].knockbackVelocity.set]_vars

(***************************************************************************)
(* C24: when an agent hits another agent, the victim's initial horizontal  *)
(* knockback velocity points from the attacker to the victim: it has a     *)
(* positive component along the displacement victim minus attacker, so     *)
(* the knockback moves the victim away from the attacker.                  *)
(***************************************************************************)
C24_KnockbackAway ==
    [][\A o \in Range(registry) :
          HitExecuted(o) =>
              LET c == chars[o]
                  victim == AsFoundBy(o, c.hitTargetPlayer)
                  v == chars'[c.hitTargetPlayer].knockbackVelocity
              IN  v.x * (victim.x - c.x) + v.z * (victim.z - c.z) > 0]_vars

(***************************************************************************)
(* C25: the hit animation is committed.  Its timer starts at 0.5 s in the  *)
(* tick of the hit and is counted down by every tick from that one on (12  *)
(* ticks), whatever the lower states' logic does; the agent stops hitting  *)
(* only when the timer has run out, and is then idle with a hold of 2 to   *)
(* 4 s.  In the tick in which an idle hold runs out the agent is walking   *)
(* again with a target set in that tick: the selection has run (replan     *)
(* timer 4 to 9 s, target at least minTargetDistance away) unless the      *)
(* avoidance has put its escape target over it in the same tick.           *)
(* States above Hitting (dying, thrown, knocked back, dragged, formation)  *)
(* suspend it and are left out.                                            *)
(***************************************************************************)
Suspended(o, c) ==
    \/ c.isDying
    \/ c.isThrown
    \/ c.isFloating
    \/ c.isBeingHit
    \/ c.formationMode
    \/ formationMode
    \/ draggedChar = o

\* the tick updates o with no state above Hitting in the way
OwnTick(o) ==
    /\ TickTaken
    /\ o \in stepLog'.updated
    /\ ~Suspended(o, chars[o])
    /\ ~Suspended(o, chars'[o])

IdleHoldExpires(o) ==
    /\ OwnTick(o)
    /\ chars[o].animationState = "idle"
    /\ ~chars[o].isHitting
    /\ chars[o].idleDuration # Undef
    /\ chars[o].idleDuration <= DT
    /\ chars'[o].hitTargetPlayer = NoChar

\* the target of d was set in this tick: by the selection (a candidate at
\* least minTargetDistance from the agent, the timer 4 to 9 s), or after it by
\* the avoidance (an escape point at least 50 away, the timer 0.3 or 0.5 s)
FreshTarget(c, d) ==
    \/ /\ d.changeTargetTime \in (4 * Sec)..(9 * Sec)
       /\ Hypot(d.targetX - c.x, d.targetZ - c.z) >= minTargetDistance
    \/ /\ d.changeTargetTime \in {(3 * Sec) \div 10, Sec \div 2}
       /\ Hypot(d.targetX - c.x, d.targetZ - c.z) >= 50 * Unit

NonMember(o) ==
    /\ FormationActive([formationMode |-> formationMode,
                        selectedCluster |-> selectedCluster, clusters |-> clusters])
    /\ chars[o].username \notin Range(clusters[selectedCluster])

\* o has reached its exit in an earlier tick and is parked there
AtExit(o) == NonMember(o) /\ chars[o].formationMode /\ chars[o].isFadedOut

FormationEvents == {"handleClusterSelect", "cancelFormation"}

C26_NonMemberFadesOut ==
    [][/\ \A o \in Range(registry) :
             (TickTaken /\ AtExit(o) /\ o \in stepLog'.updated) =>
                 LET opacity == chars[o].fadeOutOpacity
                 IN  /\ chars'[o].fadeOutOpacity <= Max(0, opacity - 2 * (1000 \div 24))
                     /\ chars'[o].fadeOutOpacity >= 0
       /\ lastEvent' \in FormationEvents => registry' = registry]_vars

(***************************************************************************)
(* C27: after a tick in formation mode the n members of the selected       *)
(* cluster have pairwise distinct targets on the grid of rows =            *)
(* ceil(sqrt(n)) by cols = ceil(n / rows) slots that are 40 units apart    *)
(* and centred on the origin: each target is the slot of a row below rows  *)
(* and a column below cols, and the mirror image of a slot is a slot.      *)
(* Dying overrides the formation: a dying member is held where it is.      *)
(***************************************************************************)
Members ==
    {i \in 1..Len(registry) : chars[registry[i]].username \in Range(clusters[selectedCluster])}

GridRows(n) == CHOOSE r \in 1..n : r * r >= n /\ (r - 1) * (r - 1) < n
GridCols(n) == CHOOSE k \in 1..n : k * GridRows(n) >= n /\ (k - 1) * GridRows(n) < n

\* the slot of row and col on the grid for n members, 40 units apart
Slot(n, row, col) ==
    [x |-> (col * 40 * Unit) - ((GridCols(n) - 1) * 40 * Unit) \div 2,
     z |-> (row * 40 * Unit) - ((GridRows(n) - 1) * 40 * Unit) \div 2]

Grid(n) == {Slot(n, row, col) : row \in 0..(GridRows(n) - 1), col \in 0..(GridCols(n) - 1)}

TargetOf(i) == [x |-> chars[registry[i]].targetX, z |-> chars[registry[i]].targetZ]

InFormation ==
    /\ lastEvent = "tick"
    /\ FormationActive([formationMode |-> formationMode,
                        selectedCluster |-> selectedCluster, clusters |-> clusters])
    /\ Members # {}

C27_GridSlots ==
    InFormation =>
        LET n == Cardinality(Members)
        IN  /\ \A i \in Members :
                  ~chars[registry[i]].isDying => TargetOf(i) \in Grid(n)
            /\ \A i \in Members, j \in Members :
                  (i # j /\ ~chars[registry[i]].isDying /\ ~chars[registry[j]].isDying)
                      => TargetOf(i) # TargetOf(j)
            /\ \A s \in Grid(n) : [x |-> -s.x, z |-> -s.z] \in Grid(n)

\* five members: a grid of 3 rows and 2 columns with its last slot empty
C27_FiveInFormation ==
    /\ InFormation
    /\ Cardinality(Members) = 5
    /\ \E i \in Members : TargetOf(i) = Slot(5, 2, 0)
    /\ \A i \in Members : TargetOf(i) # Slot(5, 2, 1)

(***************************************************************************)
(* C28: deactivating the formation (deselecting the cluster or cancelling) *)
(* leaves no agent of the registry with a formation role, moves no agent,  *)
(* and replaces every suspended replan timer (999999) by one of 4 to 9 s;  *)
(* an agent that was faded out is no longer parked, and from then on its   *)
(* opacity is higher after every tick until it is 1.                       *)
(***************************************************************************)
Deactivated == lastEvent' \in FormationEvents /\ formationMode /\ ~formationMode'

FadingIn(c) ==
    /\ c.fadeOutOpacity # Undef
    /\ c.fadeOutOpacity < 1000
    /\ ~c.isFadedOut
    /\ ~c.formationMode
    /\ ~c.isDying

C28_DeactivationRestores ==
    [][\A o \in Range(registry) :
          LET c == chars[o]
              d == chars'[o]
          IN  /\ Deactivated =>
                    /\ ~d.formationMode /\ ~d.shouldDespawn /\ ~d.reachedFormationPosition
                    /\ <<d.x, d.z, d.gx, d.gy, d.gz>> = <<c.x, c.z, c.gx, c.gy, c.gz>>
                    /\ c.changeTargetTime = 999999 * Sec =>
                           d.changeTargetTime \in (4 * Sec)..(9 * Sec)
                    /\ d.changeTargetTime # 999999 * Sec
                    /\ c.isFadedOut => FadingIn(d)
              /\ (TickTaken /\ ~formationMode /\ FadingIn(c) /\ o \in stepLog'.updated) =>
                    /\ d.fadeOutOpacity > c.fadeOutOpacity
                    /\ d.fadeOutOpacity <= 1000
                    /\ d.fadeOutOpacity >= Min(1000, c.fadeOutOpacity + 2 * (1000 \div 24))
                    /\ ~d.isFadedOut]_vars

\* a parked agent on its way back: formation mode is off and its opacity is
\* between 0 and 1
C28_FadingBackIn ==
    /\ ~formationMode
    /\ lastEvent = "tick"
    /\ \E o \in Range(registry) :
          /\ FadingIn(chars[o])
          /\ chars[o].fadeOutOpacity > 500
          /\ chars[o].changeTargetTime < 9 * Sec

(***************************************************************************)
(* C29: a walking agent that is stuck (its stuck timer above 2 s) or whose *)
(* path is found blocked in a tick, and that is not seeking, ends the tick *)
(* with a waypoint inside the bounds or with a full replan forced (the     *)
(* progress tracking restarted for the new target): never with neither.    *)
(* The path is checked from where the agent stands before the tick towards *)
(* the target it has then, against the others as its update finds them.    *)
(***************************************************************************)
Walks(o) ==
    /\ OwnTick(o)
    /\ chars[o].animationState = "walk"
    /\ chars'[o].animationState = "walk"
    /\ chars[o].hitTargetPlayer = NoChar
    /\ chars'[o].hitTargetPlayer = NoChar
    /\ chars[o].changeTargetTime # 0

\* the 0.5 s path check was made in this tick and found the path blocked
FoundBlocked(o) ==
    LET st == WithTarget(PathState(chars[o]))
    IN  /\ chars[o].pathBlockedCheckTimer + DT > Sec \div 2
        /\ st.distance > 15 * Unit
        /\ PathBlocked([p \in DOMAIN chars |-> AsFoundBy(o, p)], registry, o, st)

\* the tick leaves the stuck timer above the threshold
LeftStuck(o) == chars'[o].stuckTimer > 2 * Sec

WaypointInBounds(c) ==
    c.waypoint.set /\ Hypot(c.waypoint.x, c.waypoint.z) < maxTargetDistance

ReplanForced(c) == c.stuckTimer = 0 /\ c.lastDistanceToTarget = Undef

C29_WaypointOrReplan ==
    [][\A o \in Range(registry) :
          (Walks(o) /\ (FoundBlocked(o) \/ LeftStuck(o))) =>
              WaypointInBounds(chars'[o]) \/ ReplanForced(chars'[o])]_vars

(***************************************************************************)
(* C30: every target selection sets the replan timer to a value in 4 to    *)
(* 9 s, and a walking agent that is not seeking and not in formation       *)
(* reaches its next replan within 9 s of walking time, an agent that has   *)
(* just respawned or whose pursuit has just ended included.  The timer     *)
(* counts the walking time down and the replan is made when it runs out:   *)
(* a tick leaves such an agent with at most 9 s on its timer, and when the *)
(* tick has raised the timer (a target was selected) with 4 to 9 s, or     *)
(* with the 0.3 s or 0.5 s of the avoidance that acts after the selection. *)
(***************************************************************************)
Strolls(o) ==
    /\ OwnTick(o)
    /\ chars'[o].animationState = "walk"
    /\ chars'[o].hitTargetPlayer = NoChar

C30_ReplanWithinNine ==
    [][\A o \in Range(registry) :
          Strolls(o) =>
              /\ chars'[o].changeTargetTime <= 9 * Sec
              /\ chars'[o].changeTargetTime > chars[o].changeTargetTime =>
                    chars'[o].changeTargetTime \in
                        (4 * Sec)..(9 * Sec) \cup {(3 * Sec) \div 10, Sec \div 2}]_vars

(***************************************************************************)
(* C31: a walking agent with nobody nearby, no waypoint and no replan in   *)
(* the tick comes closer to its target in every tick until the distance    *)
(* the tick measures is below 10, and in that tick it enters Idle; the     *)
(* stuck detector does not fire in such a tick.  Nobody nearby: every      *)
(* other agent is at least nearbyRadius from the agent as its update finds *)
(* them, and the path check finds nothing.  No replan: the timer does not  *)
(* run out in the tick.  The detector fires when the progress tracking of  *)
(* the tick leaves the stuck timer above the 2 s threshold.                *)
(***************************************************************************)
nearbyRadius == 120 * Unit

DistanceToTarget(c) == Hypot(c.targetX - c.x, c.targetZ - c.z)

NobodyNearby(o) ==
    /\ \A p \in Range(registry) \ {o} :
          Hypot(AsFoundBy(o, p).x - chars[o].x, AsFoundBy(o, p).z - chars[o].z) >= nearbyRadius
    /\ ~FoundBlocked(o)

FreeWalk(o) ==
    /\ OwnTick(o)
    /\ chars[o].animationState = "walk"
    /\ chars[o].hitTargetPlayer = NoChar
    /\ chars'[o].hitTargetPlayer = NoChar
    /\ ~chars[o].isHitting
    /\ ~chars[o].waypoint.set
    /\ ~chars[o].knockbackVelocity.set
    /\ chars[o].changeTargetTime > DT
    /\ chars[o].changeTargetTime < Inf
    /\ Hypot(chars[o].x, chars[o].z) <= maxDistanceFromCenter
    /\ NobodyNearby(o)

StuckFires(o) == StuckTracking(WithTarget(PathState(chars[o]))).c.stuckTimer > 2 * Sec

C31_UnobstructedWalk ==
    [][\A o \in Range(registry) :
          FreeWalk(o) =>
              /\ ~StuckFires(o)
              /\ IF DistanceToTarget(chars[o]) < 10 * Unit
                 THEN chars'[o].animationState = "idle"
                 ELSE /\ DistanceToTarget(chars'[o]) < DistanceToTarget(chars[o])
                      /\ chars'[o].animationState = "walk"]_vars

(***************************************************************************)
(* C32: a player record without a name is skipped and every other entry of *)
(* the same response is still processed by that sync: the roster of a sync *)
(* whose fetch went well holds the named players of the response, all of   *)
(* them, in their order and with the clusterId of their server, and each   *)
(* of them was in the registry when the sync began or is in its toAdd.     *)
(***************************************************************************)
\* the players of server i of the response, from player k on
RECURSIVE NamedFrom(_, _, _)
NamedFrom(data, i, k) ==
    IF i > Len(data) THEN << >>
    ELSE IF k > Len(data[i].onlinePlayerList) THEN NamedFrom(data, i + 1, 1)
    ELSE IF data[i].onlinePlayerList[k] = NoName THEN NamedFrom(data, i, k + 1)
    ELSE <<[username |-> data[i].onlinePlayerList[k],
            clusterId |-> IF data[i].clusterId = NoName THEN "UNKNOWN"
                          ELSE data[i].clusterId]>> \o NamedFrom(data, i, k + 1)

SyncRecords == Range(syncs) \cup {lastSync}

HasNameless(data) ==
    \E i \in 1..Len(data) : NoName \in Range(data[i].onlinePlayerList)

C32_NamelessSkipped ==
    \A rec \in SyncRecords :
        rec.ok =>
            /\ rec.onlinePlayers = NamedFrom(rec.data, 1, 1)
            /\ \A i \in 1..Len(rec.onlinePlayers) :
                  /\ rec.onlinePlayers[i].username # NoName
                  /\ \/ rec.onlinePlayers[i].username \in rec.before
                     \/ rec.onlinePlayers[i] \in Range(rec.toAdd)

\* a sync whose response had nameless records between named ones is done
\* and has added both named players
C32_OthersAdded ==
    /\ lastSync.ok
    /\ HasNameless(lastSync.data)
    /\ Len(lastSync.data) = 2
    /\ Range(lastSync.added) = {"a", "b"}
    /\ \A u \in {"a", "b"} : HasUser(registry, chars, u)

(***************************************************************************)
(* C33: with two agents at exactly the same position no division by a      *)
(* distance of 0 is made, in avoidance, seeking and hit execution,         *)
(* run-away retargeting, formation movement and normal movement: every     *)
(* position, target, waypoint and velocity of every agent is a finite      *)
(* number (a division by 0 gives NotFinite, which no sum or scaling of a   *)
(* frame brings back inside the scene).                                    *)
(***************************************************************************)
\* lengths of the scene stay far below this
FiniteBelow == 2000 * Unit

Finite(v) == Abs(v) < FiniteBelow

FiniteVec(v) == Finite(v.x) /\ Finite(v.z)

\* velocities, per second: a fast throw has some thousand units per second
FiniteSpeed(v) == Abs(v.x) < 10 * FiniteBelow /\ Abs(v.z) < 10 * FiniteBelow

AllFinite(c) ==
    /\ Finite(c.x) /\ Finite(c.z)
    /\ Finite(c.gx) /\ Finite(c.gz)
    /\ Finite(c.targetX) /\ Finite(c.targetZ)
    /\ FiniteVec(c.waypoint)
    /\ FiniteVec(c.runAwayTarget)
    /\ FiniteSpeed(c.knockbackVelocity)
    /\ FiniteSpeed(c.throwVelocity)

C33_NoDivisionByZero == \A o \in Range(registry) : AllFinite(chars[o])

SameSpot(p, o) == p # o /\ chars[p].x = chars[o].x /\ chars[p].z = chars[o].z

\* two agents have been on one spot through a tick of the normal update
C33_TickedOnOneSpot ==
    /\ lastEvent = "tick"
    /\ now >= 2 * FrameGap
    /\ \E p \in Range(registry), o \in Range(registry) :
          /\ SameSpot(p, o)
          /\ {p, o} \subseteq stepLog.updated
          /\ ~chars[p].formationMode

(***************************************************************************)
(* C34: with a constant roster and every skin load succeeding the registry *)
(* comes to hold exactly one agent per roster id and no other agent, after *)
(* finitely many syncs.  A sync that is given the roster of the sync       *)
(* before it and finds nothing to add and nothing to remove, with no sync  *)
(* and no load in flight and no load failed so far, changes nothing, and   *)
(* neither does any later sync of that roster: by then the registry must   *)
(* hold exactly one agent per roster id.                                   *)
(***************************************************************************)
SyncsAtRest ==
    /\ syncs = << >>
    /\ ~loadFailed
    /\ lastSync.call = syncCalls
    /\ lastSync.call > 1
    /\ lastSync.ok
    /\ lastSync.same
    /\ lastSync.toAdd = << >>
    /\ lastSync.removed = {}

C34_SettlesOnRoster ==
    SyncsAtRest =>
        /\ Range(Usernames_(registry, chars)) = RosterIds(lastSync.onlinePlayers)
        /\ Cardinality(Range(Usernames_(registry, chars))) = Len(registry)

(***************************************************************************)
(* C35: every Thrown agent eventually leaves the Thrown state (it lands,   *)
(* or it dies and respawns): while frames keep coming no agent remains     *)
(* thrown forever, whether or not formation mode is activated during the   *)
(* flight.                                                                 *)
(***************************************************************************)
FlightAgents == {1, 2}

StillThrown(o) == o \in Range(registry) /\ chars[o].isThrown

UserHit(c) == c.isHit /\ ~c.isDying

HitTimeLeft(c) == c.hitTimer # Undef /\ c.hitTimer <= (6 * Sec) \div 10

C36_UserHitTransient ==
    [][\A o \in Range(registry) :
          /\ UserHit(chars'[o]) => HitTimeLeft(chars'[o])
          /\ (UserHit(chars[o]) /\ UserHit(chars'[o]) /\ HitTimeLeft(chars[o])) =>
                IF TickTaken
                THEN chars'[o].hitTimer <= chars[o].hitTimer - DT
                ELSE chars'[o].hitTimer <= chars[o].hitTimer]_vars

(***************************************************************************)
(* C37: when the roster fetch fails the sync treats the roster as empty:   *)
(* it has nothing to add, and every agent that is in the registry when the *)
(* fetch has failed is removed by that sync, so the sync leaves the        *)
(* registry empty.                                                         *)
(***************************************************************************)
FetchFailedNow ==
    /\ lastEvent' = "syncCharacters"
    /\ Len(syncs') = Len(syncs) + 1
    /\ ~syncs'[Len(syncs')].ok

C37_FailedFetchRemovesAll ==
    [][FetchFailedNow =>
          /\ syncs'[Len(syncs')].onlinePlayers = << >>
          /\ syncs'[Len(syncs')].toAdd = << >>
          /\ syncs'[Len(syncs')].pending = << >>
          /\ syncs'[Len(syncs')].removed = Range(Usernames_(registry, chars))
          /\ registry' = << >>]_vars

\* a failed fetch has just emptied a registry of two agents
C37_EverybodyRemoved ==
    /\ lastEvent = "syncCharacters"
    /\ syncs # << >>
    /\ ~syncs[Len(syncs)].ok
    /\ Cardinality(syncs[Len(syncs)].beforeReg) >= 2
    /\ registry = << >>

(***************************************************************************)
(* C38: an agent in Idle or Waving that is not knocked back and not        *)
(* dragged keeps its x/z position over a tick: an agent that the tick      *)
(* updates and that stands (idle or waving, with no state above it:        *)
(* not dying, thrown, knocked back, dragged, in formation, hitting)        *)
(* before and after the tick is where it was, whoever is near it and       *)
(* however far out it stands.                                              *)
(***************************************************************************)
Stands(o, c) ==
    /\ c.animationState \in {"idle", "wave"}
    /\ ~c.isDying
    /\ ~c.isThrown
    /\ ~c.knockbackVelocity.set
    /\ ~c.formationMode
    /\ ~c.isHitting

StandsThrough(o) ==
    /\ TickTaken
    /\ o \in stepLog'.updated
    /\ draggedChar # o
    /\ ~formationMode
    /\ Stands(o, chars[o])
    /\ Stands(o, chars'[o])

C38_StandingStaysPut ==
    [][\A o \in Range(registry) :
          StandsThrough(o) =>
              /\ chars'[o].x = chars[o].x
              /\ chars'[o].z = chars[o].z]_vars

\* an agent has stood through a tick beyond the edge with another agent
\* inside its avoidance radius
C38_StoodAtTheEdge ==
    /\ lastEvent = "tick"
    /\ now >= 2 * FrameGap
    /\ \E o \in Range(registry), p \in Range(registry) :
          /\ p # o
          /\ o \in stepLog.updated
          /\ Stands(o, chars[o])
          /\ \/ chars[o].animationState = "idle" /\ chars[o].idleDuration < 2 * Sec - DT
             \/ chars[o].animationState = "wave" /\ chars[o].waveDuration < 4 * Sec - DT
          /\ Hypot(chars[o].x, chars[o].z) > maxDistanceFromCenter
          /\ Hypot(chars[o].x - chars[p].x, chars[o].z - chars[p].z) < avoidanceRadius
          /\ Hypot(chars[o].x - chars[p].x, chars[o].z - chars[p].z) > 0

(***************************************************************************)
(* C39: when the 5 s hit-decision roll succeeds the chosen victim is the   *)
(* nearest other agent whose distance lies in [50, 200] and whose          *)
(* animation state is not RUN, never the agent itself; if there is no such *)
(* agent the agent does not enter Seeking.  The roll is evaluated only for *)
(* agents that are not in formation, not seeking or hitting already, and   *)
(* not running away, and only when their 5 s timer runs out.  (The other   *)
(* agents are taken as the deciding agent's update finds them.)            *)
(***************************************************************************)
EntersSeeking(o) ==
    /\ TickTaken
    /\ o \in stepLog'.updated
    /\ chars[o].hitTargetPlayer = NoChar
    /\ chars'[o].hitTargetPlayer # NoChar

DistanceFound(o, p) ==
    Hypot(chars[o].x - AsFoundBy(o, p).x, chars[o].z - AsFoundBy(o, p).z)

Targetable(o, p) ==
    /\ p \in Range(registry)
    /\ p # o
    /\ AsFoundBy(o, p).animationState # "run"
    /\ DistanceFound(o, p) >= 50 * Unit
    /\ DistanceFound(o, p) <= 200 * Unit

MayRoll(c) ==
    /\ ~c.formationMode
    /\ ~c.isHitting
    /\ c.animationState # "run"
    /\ c.hitDecisionTimer = Undef \/ c.hitDecisionTimer <= DT

C39_NearestInRange ==
    [][\A o \in Range(registry) :
          EntersSeeking(o) =>
              /\ MayRoll(chars[o])
              /\ Targetable(o, chars'[o].hitTargetPlayer)
              /\ \A p \in Range(registry) :
                    Targetable(o, p) =>
                        DistanceFound(o, chars'[o].hitTargetPlayer) <= DistanceFound(o, p)]_vars

\* an agent has taken a victim while a nearer agent was too near or running
\* away and a farther one was in range
C39_VictimChosen ==
    /\ lastEvent = "tick"
    /\ \E o \in Range(registry), p \in Range(registry), q \in Range(registry) :
          /\ chars[o].hitTargetPlayer \notin {NoChar, p, q}
          /\ chars[o].hitDecisionTimer = 5 * Sec
          /\ p # o /\ q # o /\ p # q
          /\ \/ chars[p].animationState = "run"
             \/ Hypot(chars[o].x - chars[p].x, chars[o].z - chars[p].z) < 50 * Unit
          /\ Hypot(chars[o].x - chars[p].x, chars[o].z - chars[p].z)
                < Hypot(chars[o].x - chars[chars[o].hitTargetPlayer].x,
                        chars[o].z - chars[chars[o].hitTargetPlayer].z)
          /\ Hypot(chars[o].x - chars[q].x, chars[o].z - chars[q].z)
                > Hypot(chars[o].x - chars[chars[o].hitTargetPlayer].x,
                        chars[o].z - chars[chars[o].hitTargetPlayer].z)
          /\ Hypot(chars[o].x - chars[q].x, chars[o].z - chars[q].z) <= 200 * Unit

(***************************************************************************)
(* C40: at most one agent has isHovered set at any time, after any         *)
(* sequence of pointer move, pointer down, drag, pointer up and click      *)
(* events.                                                                 *)
(***************************************************************************)
Hovered == {o \in Range(registry) : chars[o].isHovered}

C40_OneHovered == Cardinality(Hovered) <= 1

====
